---------------------------- MODULE Spec2Model ----------------------------
(***************************************************************************)
(* A model of the conversational-agent orchestration core of the           *)
(* repository (src/agent): the language guard (utils/languages.py), the    *)
(* LangGraph state machine (core/graph.py), the message route that drives  *)
(* it (routes/messages.py) and the part of the store the route writes     *)
(* (memory/dynamodb_store.py, memory/manager.py).                          *)
(*                                                                         *)
(* Texts typed by the user are sequences of Unicode code points, because   *)
(* the guard and the keyword router scan them character by character.      *)
(* Texts produced by the program are tagged records: [t |-> kind, ...].    *)
(***************************************************************************)
EXTENDS Integers, Sequences, FiniteSets, TLC

VARIABLES
    text,                \* validate_language / _get_mock_response: the input text
    lang,                \* validate_language / _get_mock_response: the language code
    result,              \* the value returned by the pure function under test
    fpc,                 \* position of the pure-function harness: "input" | "done"
    \* ---- AgentState (core/state.py), one turn ----
    human_input,         \* state["human_input"]
    selected_language,   \* state["selected_language"]
    language_accepted,   \* state["language_accepted"]: "unset" | TRUE | FALSE
    language_rejection,  \* state["language_rejection"]: None or the rejection text
    messages,            \* state["messages"]: the running message list
    tool_outputs,        \* state["tool_outputs"]: the turn's tool-output log
    \* ---- control ----
    pc,                  \* where send_message / the graph stands
    visited,             \* the graph nodes run so far in this turn, in order
    llm_calls,           \* number of llm.ainvoke calls made by agent in this turn
    next_call_id,        \* the id the model gives to its next tool-call request
    mem_calls,           \* extract_and_update_long_term_memory calls of this turn
    last_llm,            \* outcome of the latest llm.ainvoke: "none" | "ok" | "failed"
    issued,              \* the tool-call requests the model made in this turn, in order
    \* ---- store ----
    conv,                \* the conversation record (CONVERSATIONS_TABLE item)
    local_conv,          \* send_message's local conv: the record as read at its start
    stored,              \* the conversation's messages (MESSAGES_TABLE), in key order
    ltm,                 \* the user's long-term memory blob (MEMORY_TABLE), or None
    \* ---- what send_message returns ----
    response,
    \* ---- environment and observers ----
    clock,               \* the wall clock, in seconds
    mem_outcome,         \* what memory_update did in this turn
    summary_call,        \* how the summarizer answered load_context
    locals               \* what the suspended coroutine read before its await

vars == <<text, lang, result, fpc, human_input, selected_language,
          language_accepted, language_rejection, messages, tool_outputs,
          pc, visited, llm_calls, next_call_id, mem_calls, last_llm, issued,
          conv, local_conv, stored, ltm, response, clock, mem_outcome,
          summary_call, locals>>

fnVars == <<text, lang, result, fpc>>
turnVars == <<human_input, selected_language, language_accepted,
              language_rejection, messages, tool_outputs, pc, visited,
              llm_calls, next_call_id, mem_calls, last_llm, issued,
              conv, local_conv, stored, ltm, response, clock, mem_outcome,
              summary_call, locals>>

\* the variables of a turn that the runs of single functions leave alone
ctlVars == <<human_input, selected_language, language_accepted,
             language_rejection, pc, visited, llm_calls, next_call_id,
             mem_calls, last_llm, issued, local_conv, response, mem_outcome,
             summary_call, locals>>

None == [t |-> "None"]

(***************************************************************************)
(* Bounds of the model.                                                    *)
(***************************************************************************)
\* longest input text enumerated for validate_language
MaxLen == 3
\* tool-call requests the model may issue over one turn (all rounds together)
MaxToolCalls == 1
\* longest list of tool-call requests enumerated for one run of tool_executor
MaxCalls == 3
\* rounds followed of a model that answers every invocation with a tool call
MaxRounds == 5
\* calls of extract_and_update_long_term_memory, in flight together or one
\* after the other
MaxExtracts == 2
\* most messages a conversation holds when the store functions are first called
MaxStored == 12
\* store functions called on a conversation, in flight together or one
\* after the other
MaxOps == 2
\* turns sent on a conversation, one after the other or in flight together
MaxTurns == 3
\* requests in flight at the same time on a conversation
MaxInFlight == 2
\* most messages of each conversation when the table functions are first called
MaxConvMessages == 3
\* table functions called one after the other
MaxTableOps == 2
\* requests to the conversations routes made around a turn
MaxRouteCalls == 2

\* most tool-call requests a model makes over the rounds of a turn of SpecRounds
MaxRoundCalls == 2

\* most messages stored beyond the fetch cap when build_message_history is
\* called on a long conversation
MaxOverCap == 2

--------------------------------------------------------------------------
(***************************************************************************)
(* utils/languages.py                                                      *)
(***************************************************************************)

\* SCRIPT_PATTERNS, in the dict's insertion order (detect_scripts iterates it)
SCRIPT_ORDER ==
    <<"devanagari", "bengali", "gujarati", "gurmukhi", "kannada",
      "malayalam", "odia", "tamil", "telugu", "latin">>

\* SCRIPT_PATTERNS: the code points each pattern matches
SCRIPT_PATTERNS(script) ==
    CASE script = "devanagari" -> 2304..2431
      [] script = "bengali"    -> 2432..2559
      [] script = "gujarati"   -> 2688..2815
      [] script = "gurmukhi"   -> 2560..2687
      [] script = "kannada"    -> 3200..3327
      [] script = "malayalam"  -> 3328..3455
      [] script = "odia"       -> 2816..2943
      [] script = "tamil"      -> 2944..3071
      [] script = "telugu"     -> 3072..3199
      [] script = "latin"      -> (65..90) \cup (97..122)   \* [A-Za-z]

\* LANGUAGE_SCRIPTS with a script name that is no key of SCRIPT_PATTERNS
LANGUAGE_SCRIPTS_oriya ==
    [en |-> <<"latin">>,
     hi |-> <<"devanagari", "latin">>,
     mr |-> <<"devanagari", "latin">>,
     ml |-> <<"malayalam", "latin">>,
     ta |-> <<"tamil", "latin">>,
     te |-> <<"telugu", "latin">>,
     kn |-> <<"kannada", "latin">>,
     bn |-> <<"bengali", "latin">>,
     gu |-> <<"gujarati", "latin">>,
     or |-> <<"oriya", "latin">>]

\* LANGUAGE_SCRIPTS
LANGUAGE_SCRIPTS ==
    [en |-> <<"latin">>,
     hi |-> <<"devanagari", "latin">>,
     mr |-> <<"devanagari", "latin">>,
     ml |-> <<"malayalam", "latin">>,
     ta |-> <<"tamil", "latin">>,
     te |-> <<"telugu", "latin">>,
     kn |-> <<"kannada", "latin">>,
     bn |-> <<"bengali", "latin">>,
     gu |-> <<"gujarati", "latin">>,
     or |-> <<"odia", "latin">>]

\* LANGUAGE_LABELS (the native-script part of each label is left out: the
\* label is kept as the English name the source puts in parentheses)
LANGUAGE_LABELS ==
    [en |-> "English", hi |-> "Hindi", mr |-> "Marathi", ml |-> "Malayalam",
     ta |-> "Tamil", te |-> "Telugu", kn |-> "Kannada", bn |-> "Bengali",
     gu |-> "Gujarati", or |-> "Odia"]

\* REJECTION_MESSAGES: one canned refusal per language, named by its key
REJECTION_MESSAGES ==
    [l \in {"en", "hi", "mr", "ml", "ta", "te", "kn", "bn", "gu", "or"} |->
        [t |-> "REJECTION_MESSAGES", key |-> l]]

\* dict.get(key, default)
DictGet(d, key, default) == IF key \in DOMAIN d THEN d[key] ELSE default

\* \s of a str pattern: Unicode whitespace
IsSpace(c) ==
    \/ c \in {9, 10, 11, 12, 13, 28, 29, 30, 31, 32, 133, 160, 5760,
              8232, 8233, 8239, 8287, 12288}
    \/ c \in 8192..8202

\* the code points \d of a str pattern matches: every Unicode decimal digit
\* (category Nd), as <<first, last>> ranges
DECIMAL_DIGITS ==
    {<<48, 57>>, <<1632, 1641>>, <<1776, 1785>>, <<1984, 1993>>, <<2406, 2415>>,
     <<2534, 2543>>, <<2662, 2671>>, <<2790, 2799>>, <<2918, 2927>>, <<3046, 3055>>,
     <<3174, 3183>>, <<3302, 3311>>, <<3430, 3439>>, <<3558, 3567>>, <<3664, 3673>>,
     <<3792, 3801>>, <<3872, 3881>>, <<4160, 4169>>, <<4240, 4249>>, <<6112, 6121>>,
     <<6160, 6169>>, <<6470, 6479>>, <<6608, 6617>>, <<6784, 6793>>, <<6800, 6809>>,
     <<6992, 7001>>, <<7088, 7097>>, <<7232, 7241>>, <<7248, 7257>>, <<42528, 42537>>,
     <<43216, 43225>>, <<43264, 43273>>, <<43472, 43481>>, <<43504, 43513>>, <<43600, 43609>>,
     <<44016, 44025>>, <<65296, 65305>>, <<66720, 66729>>, <<68912, 68921>>, <<69734, 69743>>,
     <<69872, 69881>>, <<69942, 69951>>, <<70096, 70105>>, <<70384, 70393>>, <<70736, 70745>>,
     <<70864, 70873>>, <<71248, 71257>>, <<71360, 71369>>, <<71472, 71481>>, <<71904, 71913>>,
     <<72016, 72025>>, <<72784, 72793>>, <<73040, 73049>>, <<73120, 73129>>, <<92768, 92777>>,
     <<92864, 92873>>, <<93008, 93017>>, <<120782, 120831>>, <<123200, 123209>>, <<123632, 123641>>,
     <<125264, 125273>>, <<130032, 130041>>}

\* \d of a str pattern
IsDigit(c) == \E r \in DECIMAL_DIGITS : c \in r[1]..r[2]

\* the punctuation listed in _STRIP_RE
IsStripPunct(c) ==
    \/ c \in 33..47               \* U+0021-002F
    \/ c \in 58..64               \* U+003A-0040
    \/ c \in {91, 92, 93, 94, 96} \* brackets, backslash, caret, backtick
    \/ c \in 123..126             \* braces, bar, tilde
    \/ c \in {8211, 8212}         \* en dash, em dash

\* the emoji ranges of the second re.sub in validate_language
IsEmoji(c) ==
    \/ c \in 128512..128591       \* U+1F600-1F64F
    \/ c \in 127744..128511       \* U+1F300-1F5FF
    \/ c \in 128640..128767       \* U+1F680-1F6FF
    \/ c \in 127456..127487       \* U+1F1E0-1F1FF
    \/ c \in 9986..10160          \* U+2702-27B0
    \/ c \in 129280..129535       \* U+1F900-1F9FF
    \/ c \in 129536..129647       \* U+1FA00-1FA6F
    \/ c \in 129648..129791       \* U+1FA70-1FAFF
    \/ c \in 9728..9983           \* U+2600-26FF

\* _STRIP_RE.sub("", text)
StripNoise(s) ==
    SelectSeq(s, LAMBDA c : ~(IsSpace(c) \/ IsDigit(c) \/ IsStripPunct(c)))

\* Stripped with the emoji substitution forgotten
StrippedKeepsEmoji(s) == StripNoise(s)

\* the text after both substitutions: what "meaningful length" measures
Stripped(s) == SelectSeq(StripNoise(s), LAMBDA c : ~IsEmoji(c))

\* pattern.findall(text), counted
CountMatches(s, script) ==
    Len(SelectSeq(s, LAMBDA c : c \in SCRIPT_PATTERNS(script)))

\* detect_scripts without its "if matches" test: every script gets a key
detect_scripts_all_keys(s) ==
    [script \in {SCRIPT_ORDER[i] : i \in DOMAIN SCRIPT_ORDER}
        |-> CountMatches(s, script)]

\* detect_scripts: script name -> number of matching characters, only for
\* the scripts that match at all
detect_scripts(s) ==
    [script \in {SCRIPT_ORDER[i] : i \in
                    {j \in DOMAIN SCRIPT_ORDER : CountMatches(s, SCRIPT_ORDER[j]) > 0}}
        |-> CountMatches(s, script)]

\* list(scripts.keys()): the keys in insertion order
ScriptNames(s) ==
    LET keys == DOMAIN detect_scripts(s)
    IN  SelectSeq(SCRIPT_ORDER, LAMBDA script : script \in keys)

\* the f-string of the rejection reason, as its pieces
Reason(script, label) ==
    [t |-> "reason",
     parts |-> <<"Detected ", script, " script but selected language is ",
                 label, ". Please write in ", label, ".">>]

\* the loop at languages.py:119 returning True at the first acceptable
\* script instead of after the loop: only the first non-Latin script is judged
ForeignScriptsFirstOnly(script_names, acceptable) ==
    LET indic == SelectSeq(script_names, LAMBDA script : script # "latin")
    IN  IF indic # <<>> /\ ~(\E i \in DOMAIN acceptable : acceptable[i] = Head(indic))
        THEN <<Head(indic)>>
        ELSE <<>>

\* the scripts of the loop at languages.py:119 that make it return False
ForeignScripts(script_names, acceptable) ==
    SelectSeq(script_names,
              LAMBDA script : script # "latin" /\
                  ~(\E i \in DOMAIN acceptable : acceptable[i] = script))

\* validate_language(text, selected_lang) -> (accepted, rejection_reason)
validate_language(s, selected_lang) ==
    LET script_names == ScriptNames(s)
        acceptable == DictGet(LANGUAGE_SCRIPTS, selected_lang, <<"latin">>)
        foreign == ForeignScripts(script_names, acceptable)
        label == DictGet(LANGUAGE_LABELS, selected_lang, selected_lang)
    IN  IF Len(Stripped(s)) < 3 THEN <<TRUE, None>>
        ELSE IF script_names = <<>> THEN <<TRUE, None>>
        ELSE IF script_names = <<"latin">> THEN <<TRUE, None>>
        ELSE IF foreign # <<>> THEN <<FALSE, Reason(Head(foreign), label)>>
        ELSE <<TRUE, None>>

\* get_rejection_message answering in English whatever the language
get_rejection_message_english(selected_lang) == REJECTION_MESSAGES["en"]

\* get_rejection_message(selected_lang)
get_rejection_message(selected_lang) ==
    DictGet(REJECTION_MESSAGES, selected_lang, REJECTION_MESSAGES["en"])

--------------------------------------------------------------------------
(***************************************************************************)
(* Inputs of the language guard: every text of at most MaxLen characters   *)
(* over one letter of each script the guard knows, a Latin letter, and     *)
(* characters the guard strips or does not recognise.                      *)
(***************************************************************************)

\* one representative code point per class of character
GuardChars ==
    {2325,      \* DEVANAGARI LETTER KA
     2453,      \* BENGALI LETTER KA
     2709,      \* GUJARATI LETTER KA
     2581,      \* GURMUKHI LETTER KA
     3221,      \* KANNADA LETTER KA
     3349,      \* MALAYALAM LETTER KA
     2837,      \* ORIYA LETTER KA
     2965,      \* TAMIL LETTER KA
     3093,      \* TELUGU LETTER KA
     97,        \* LATIN SMALL LETTER A
     32,        \* SPACE (stripped: whitespace)
     2407,      \* DEVANAGARI DIGIT ONE (stripped as a digit, matched as devanagari)
     65297,     \* FULLWIDTH DIGIT ONE (stripped as a digit, no recognised script)
     127456,    \* U+1F1E0, the first code point of an emoji range (stripped: emoji)
     20013}     \* a CJK ideograph (not stripped, no recognised script)

\* the language codes of LANGUAGE_SCRIPTS
SupportedLangs == DOMAIN LANGUAGE_SCRIPTS

\* language codes tried: the supported ones and one the tables do not know
GuardLangs == SupportedLangs \cup {"pa"}

\* all sequences over S of length at most n
SeqsUpTo(S, n) == UNION {[1..k -> S] : k \in 0..n}

IdleTurn ==
    /\ human_input = [t |-> "input", cps |-> <<>>]
    /\ selected_language = "en"
    /\ language_accepted = "unset"
    /\ language_rejection = [t |-> "unset"]
    /\ messages = <<>>
    /\ tool_outputs = <<>>
    /\ pc = "idle"
    /\ visited = <<>>
    /\ llm_calls = 0
    /\ next_call_id = 1
    /\ mem_calls = 0
    /\ last_llm = "none"
    /\ issued = <<>>
    /\ conv = None
    /\ local_conv = None
    /\ stored = <<>>
    /\ ltm = None
    /\ response = None
    /\ clock = 0
    /\ mem_outcome = "none"
    /\ summary_call = "none"
    /\ locals = None

GuardInit ==
    /\ text \in SeqsUpTo(GuardChars, MaxLen)
    /\ lang \in GuardLangs
    /\ result = None
    /\ fpc = "input"
    /\ IdleTurn

\* one call of validate_language(text, lang)
Validate ==
    /\ fpc = "input"
    /\ LET r == validate_language(text, lang)
       IN  result' = [t |-> "validate_language", accepted |-> r[1], reason |-> r[2]]
    /\ fpc' = "done"
    /\ UNCHANGED <<text, lang>>
    /\ UNCHANGED turnVars

GuardNext == Validate

SpecGuard == GuardInit /\ [][GuardNext]_vars

--------------------------------------------------------------------------
(***************************************************************************)
(* core/graph.py: the keyword-routed canned response used when the model   *)
(* call fails.                                                             *)
(***************************************************************************)

\* str.lower(): the code points that lower-case to one other code point, as
\* runs <<first, last, stride, offset>>: every stride-th code point from
\* first to last maps to itself plus offset
LOWERCASE ==
    {<<65, 90, 1, 32>>, <<192, 214, 1, 32>>, <<216, 222, 1, 32>>,
     <<256, 302, 2, 1>>, <<306, 310, 2, 1>>, <<313, 327, 2, 1>>,
     <<330, 374, 2, 1>>, <<376, 376, 1, -121>>, <<377, 381, 2, 1>>,
     <<385, 385, 1, 210>>, <<386, 388, 2, 1>>, <<390, 390, 1, 206>>,
     <<391, 391, 1, 1>>, <<393, 394, 1, 205>>, <<395, 395, 1, 1>>,
     <<398, 398, 1, 79>>, <<399, 399, 1, 202>>, <<400, 400, 1, 203>>,
     <<401, 401, 1, 1>>, <<403, 403, 1, 205>>, <<404, 404, 1, 207>>,
     <<406, 406, 1, 211>>, <<407, 407, 1, 209>>, <<408, 408, 1, 1>>,
     <<412, 412, 1, 211>>, <<413, 413, 1, 213>>, <<415, 415, 1, 214>>,
     <<416, 420, 2, 1>>, <<422, 422, 1, 218>>, <<423, 423, 1, 1>>,
     <<425, 425, 1, 218>>, <<428, 428, 1, 1>>, <<430, 430, 1, 218>>,
     <<431, 431, 1, 1>>, <<433, 434, 1, 217>>, <<435, 437, 2, 1>>,
     <<439, 439, 1, 219>>, <<440, 440, 1, 1>>, <<444, 444, 1, 1>>,
     <<452, 452, 1, 2>>, <<453, 453, 1, 1>>, <<455, 455, 1, 2>>,
     <<456, 456, 1, 1>>, <<458, 458, 1, 2>>, <<459, 475, 2, 1>>,
     <<478, 494, 2, 1>>, <<497, 497, 1, 2>>, <<498, 500, 2, 1>>,
     <<502, 502, 1, -97>>, <<503, 503, 1, -56>>, <<504, 542, 2, 1>>,
     <<544, 544, 1, -130>>, <<546, 562, 2, 1>>, <<570, 570, 1, 10795>>,
     <<571, 571, 1, 1>>, <<573, 573, 1, -163>>, <<574, 574, 1, 10792>>,
     <<577, 577, 1, 1>>, <<579, 579, 1, -195>>, <<580, 580, 1, 69>>,
     <<581, 581, 1, 71>>, <<582, 590, 2, 1>>, <<880, 882, 2, 1>>,
     <<886, 886, 1, 1>>, <<895, 895, 1, 116>>, <<902, 902, 1, 38>>,
     <<904, 906, 1, 37>>, <<908, 908, 1, 64>>, <<910, 911, 1, 63>>,
     <<913, 929, 1, 32>>, <<931, 939, 1, 32>>, <<975, 975, 1, 8>>,
     <<984, 1006, 2, 1>>, <<1012, 1012, 1, -60>>, <<1015, 1015, 1, 1>>,
     <<1017, 1017, 1, -7>>, <<1018, 1018, 1, 1>>, <<1021, 1023, 1, -130>>,
     <<1024, 1039, 1, 80>>, <<1040, 1071, 1, 32>>, <<1120, 1152, 2, 1>>,
     <<1162, 1214, 2, 1>>, <<1216, 1216, 1, 15>>, <<1217, 1229, 2, 1>>,
     <<1232, 1326, 2, 1>>, <<1329, 1366, 1, 48>>, <<4256, 4293, 1, 7264>>,
     <<4295, 4295, 1, 7264>>, <<4301, 4301, 1, 7264>>, <<5024, 5103, 1, 38864>>,
     <<5104, 5109, 1, 8>>, <<7312, 7354, 1, -3008>>, <<7357, 7359, 1, -3008>>,
     <<7680, 7828, 2, 1>>, <<7838, 7838, 1, -7615>>, <<7840, 7934, 2, 1>>,
     <<7944, 7951, 1, -8>>, <<7960, 7965, 1, -8>>, <<7976, 7983, 1, -8>>,
     <<7992, 7999, 1, -8>>, <<8008, 8013, 1, -8>>, <<8025, 8031, 2, -8>>,
     <<8040, 8047, 1, -8>>, <<8072, 8079, 1, -8>>, <<8088, 8095, 1, -8>>,
     <<8104, 8111, 1, -8>>, <<8120, 8121, 1, -8>>, <<8122, 8123, 1, -74>>,
     <<8124, 8124, 1, -9>>, <<8136, 8139, 1, -86>>, <<8140, 8140, 1, -9>>,
     <<8152, 8153, 1, -8>>, <<8154, 8155, 1, -100>>, <<8168, 8169, 1, -8>>,
     <<8170, 8171, 1, -112>>, <<8172, 8172, 1, -7>>, <<8184, 8185, 1, -128>>,
     <<8186, 8187, 1, -126>>, <<8188, 8188, 1, -9>>, <<8486, 8486, 1, -7517>>,
     <<8490, 8490, 1, -8383>>, <<8491, 8491, 1, -8262>>, <<8498, 8498, 1, 28>>,
     <<8544, 8559, 1, 16>>, <<8579, 8579, 1, 1>>, <<9398, 9423, 1, 26>>,
     <<11264, 11311, 1, 48>>, <<11360, 11360, 1, 1>>, <<11362, 11362, 1, -10743>>,
     <<11363, 11363, 1, -3814>>, <<11364, 11364, 1, -10727>>, <<11367, 11371, 2, 1>>,
     <<11373, 11373, 1, -10780>>, <<11374, 11374, 1, -10749>>, <<11375, 11375, 1, -10783>>,
     <<11376, 11376, 1, -10782>>, <<11378, 11378, 1, 1>>, <<11381, 11381, 1, 1>>,
     <<11390, 11391, 1, -10815>>, <<11392, 11490, 2, 1>>, <<11499, 11501, 2, 1>>,
     <<11506, 11506, 1, 1>>, <<42560, 42604, 2, 1>>, <<42624, 42650, 2, 1>>,
     <<42786, 42798, 2, 1>>, <<42802, 42862, 2, 1>>, <<42873, 42875, 2, 1>>,
     <<42877, 42877, 1, -35332>>, <<42878, 42886, 2, 1>>, <<42891, 42891, 1, 1>>,
     <<42893, 42893, 1, -42280>>, <<42896, 42898, 2, 1>>, <<42902, 42920, 2, 1>>,
     <<42922, 42922, 1, -42308>>, <<42923, 42923, 1, -42319>>, <<42924, 42924, 1, -42315>>,
     <<42925, 42925, 1, -42305>>, <<42926, 42926, 1, -42308>>, <<42928, 42928, 1, -42258>>,
     <<42929, 42929, 1, -42282>>, <<42930, 42930, 1, -42261>>, <<42931, 42931, 1, 928>>,
     <<42932, 42946, 2, 1>>, <<42948, 42948, 1, -48>>, <<42949, 42949, 1, -42307>>,
     <<42950, 42950, 1, -35384>>, <<42951, 42953, 2, 1>>, <<42960, 42960, 1, 1>>,
     <<42966, 42968, 2, 1>>, <<42997, 42997, 1, 1>>, <<65313, 65338, 1, 32>>,
     <<66560, 66599, 1, 40>>, <<66736, 66771, 1, 40>>, <<66928, 66938, 1, 39>>,
     <<66940, 66954, 1, 39>>, <<66956, 66962, 1, 39>>, <<66964, 66965, 1, 39>>,
     <<68736, 68786, 1, 64>>, <<71840, 71871, 1, 32>>, <<93760, 93791, 1, 32>>,
     <<125184, 125217, 1, 34>>}

\* str.lower(): the case-ignorable code points, which the final-sigma test
\* skips, as <<first, last>> ranges
CASE_IGNORABLE ==
    {<<39, 39>>, <<46, 46>>, <<58, 58>>, <<94, 94>>, <<96, 96>>,
     <<168, 168>>, <<173, 173>>, <<175, 175>>, <<180, 180>>, <<183, 184>>,
     <<688, 879>>, <<884, 885>>, <<890, 890>>, <<900, 901>>, <<903, 903>>,
     <<1155, 1161>>, <<1369, 1369>>, <<1375, 1375>>, <<1425, 1469>>, <<1471, 1471>>,
     <<1473, 1474>>, <<1476, 1477>>, <<1479, 1479>>, <<1524, 1524>>, <<1536, 1541>>,
     <<1552, 1562>>, <<1564, 1564>>, <<1600, 1600>>, <<1611, 1631>>, <<1648, 1648>>,
     <<1750, 1757>>, <<1759, 1768>>, <<1770, 1773>>, <<1807, 1807>>, <<1809, 1809>>,
     <<1840, 1866>>, <<1958, 1968>>, <<2027, 2037>>, <<2042, 2042>>, <<2045, 2045>>,
     <<2070, 2093>>, <<2137, 2139>>, <<2184, 2184>>, <<2192, 2193>>, <<2200, 2207>>,
     <<2249, 2306>>, <<2362, 2362>>, <<2364, 2364>>, <<2369, 2376>>, <<2381, 2381>>,
     <<2385, 2391>>, <<2402, 2403>>, <<2417, 2417>>, <<2433, 2433>>, <<2492, 2492>>,
     <<2497, 2500>>, <<2509, 2509>>, <<2530, 2531>>, <<2558, 2558>>, <<2561, 2562>>,
     <<2620, 2620>>, <<2625, 2626>>, <<2631, 2632>>, <<2635, 2637>>, <<2641, 2641>>,
     <<2672, 2673>>, <<2677, 2677>>, <<2689, 2690>>, <<2748, 2748>>, <<2753, 2757>>,
     <<2759, 2760>>, <<2765, 2765>>, <<2786, 2787>>, <<2810, 2815>>, <<2817, 2817>>,
     <<2876, 2876>>, <<2879, 2879>>, <<2881, 2884>>, <<2893, 2893>>, <<2901, 2902>>,
     <<2914, 2915>>, <<2946, 2946>>, <<3008, 3008>>, <<3021, 3021>>, <<3072, 3072>>,
     <<3076, 3076>>, <<3132, 3132>>, <<3134, 3136>>, <<3142, 3144>>, <<3146, 3149>>,
     <<3157, 3158>>, <<3170, 3171>>, <<3201, 3201>>, <<3260, 3260>>, <<3263, 3263>>,
     <<3270, 3270>>, <<3276, 3277>>, <<3298, 3299>>, <<3328, 3329>>, <<3387, 3388>>,
     <<3393, 3396>>, <<3405, 3405>>, <<3426, 3427>>, <<3457, 3457>>, <<3530, 3530>>,
     <<3538, 3540>>, <<3542, 3542>>, <<3633, 3633>>, <<3636, 3642>>, <<3654, 3662>>,
     <<3761, 3761>>, <<3764, 3772>>, <<3782, 3782>>, <<3784, 3789>>, <<3864, 3865>>,
     <<3893, 3893>>, <<3895, 3895>>, <<3897, 3897>>, <<3953, 3966>>, <<3968, 3972>>,
     <<3974, 3975>>, <<3981, 3991>>, <<3993, 4028>>, <<4038, 4038>>, <<4141, 4144>>,
     <<4146, 4151>>, <<4153, 4154>>, <<4157, 4158>>, <<4184, 4185>>, <<4190, 4192>>,
     <<4209, 4212>>, <<4226, 4226>>, <<4229, 4230>>, <<4237, 4237>>, <<4253, 4253>>,
     <<4348, 4348>>, <<4957, 4959>>, <<5906, 5908>>, <<5938, 5939>>, <<5970, 5971>>,
     <<6002, 6003>>, <<6068, 6069>>, <<6071, 6077>>, <<6086, 6086>>, <<6089, 6099>>,
     <<6103, 6103>>, <<6109, 6109>>, <<6155, 6159>>, <<6211, 6211>>, <<6277, 6278>>,
     <<6313, 6313>>, <<6432, 6434>>, <<6439, 6440>>, <<6450, 6450>>, <<6457, 6459>>,
     <<6679, 6680>>, <<6683, 6683>>, <<6742, 6742>>, <<6744, 6750>>, <<6752, 6752>>,
     <<6754, 6754>>, <<6757, 6764>>, <<6771, 6780>>, <<6783, 6783>>, <<6823, 6823>>,
     <<6832, 6862>>, <<6912, 6915>>, <<6964, 6964>>, <<6966, 6970>>, <<6972, 6972>>,
     <<6978, 6978>>, <<7019, 7027>>, <<7040, 7041>>, <<7074, 7077>>, <<7080, 7081>>,
     <<7083, 7085>>, <<7142, 7142>>, <<7144, 7145>>, <<7149, 7149>>, <<7151, 7153>>,
     <<7212, 7219>>, <<7222, 7223>>, <<7288, 7293>>, <<7376, 7378>>, <<7380, 7392>>,
     <<7394, 7400>>, <<7405, 7405>>, <<7412, 7412>>, <<7416, 7417>>, <<7468, 7530>>,
     <<7544, 7544>>, <<7579, 7679>>, <<8125, 8125>>, <<8127, 8129>>, <<8141, 8143>>,
     <<8157, 8159>>, <<8173, 8175>>, <<8189, 8190>>, <<8203, 8207>>, <<8216, 8217>>,
     <<8228, 8228>>, <<8231, 8231>>, <<8234, 8238>>, <<8288, 8292>>, <<8294, 8303>>,
     <<8305, 8305>>, <<8319, 8319>>, <<8336, 8348>>, <<8400, 8432>>, <<11388, 11389>>,
     <<11503, 11505>>, <<11631, 11631>>, <<11647, 11647>>, <<11744, 11775>>, <<11823, 11823>>,
     <<12293, 12293>>, <<12330, 12333>>, <<12337, 12341>>, <<12347, 12347>>, <<12441, 12446>>,
     <<12540, 12542>>, <<40981, 40981>>, <<42232, 42237>>, <<42508, 42508>>, <<42607, 42610>>,
     <<42612, 42621>>, <<42623, 42623>>, <<42652, 42655>>, <<42736, 42737>>, <<42752, 42785>>,
     <<42864, 42864>>, <<42888, 42890>>, <<42994, 42996>>, <<43000, 43001>>, <<43010, 43010>>,
     <<43014, 43014>>, <<43019, 43019>>, <<43045, 43046>>, <<43052, 43052>>, <<43204, 43205>>,
     <<43232, 43249>>, <<43263, 43263>>, <<43302, 43309>>, <<43335, 43345>>, <<43392, 43394>>,
     <<43443, 43443>>, <<43446, 43449>>, <<43452, 43453>>, <<43471, 43471>>, <<43493, 43494>>,
     <<43561, 43566>>, <<43569, 43570>>, <<43573, 43574>>, <<43587, 43587>>, <<43596, 43596>>,
     <<43632, 43632>>, <<43644, 43644>>, <<43696, 43696>>, <<43698, 43700>>, <<43703, 43704>>,
     <<43710, 43711>>, <<43713, 43713>>, <<43741, 43741>>, <<43756, 43757>>, <<43763, 43764>>,
     <<43766, 43766>>, <<43867, 43871>>, <<43881, 43883>>, <<44005, 44005>>, <<44008, 44008>>,
     <<44013, 44013>>, <<64286, 64286>>, <<64434, 64450>>, <<65024, 65039>>, <<65043, 65043>>,
     <<65056, 65071>>, <<65106, 65106>>, <<65109, 65109>>, <<65279, 65279>>, <<65287, 65287>>,
     <<65294, 65294>>, <<65306, 65306>>, <<65342, 65342>>, <<65344, 65344>>, <<65392, 65392>>,
     <<65438, 65439>>, <<65507, 65507>>, <<65529, 65531>>, <<66045, 66045>>, <<66272, 66272>>,
     <<66422, 66426>>, <<67456, 67461>>, <<67463, 67504>>, <<67506, 67514>>, <<68097, 68099>>,
     <<68101, 68102>>, <<68108, 68111>>, <<68152, 68154>>, <<68159, 68159>>, <<68325, 68326>>,
     <<68900, 68903>>, <<69291, 69292>>, <<69446, 69456>>, <<69506, 69509>>, <<69633, 69633>>,
     <<69688, 69702>>, <<69744, 69744>>, <<69747, 69748>>, <<69759, 69761>>, <<69811, 69814>>,
     <<69817, 69818>>, <<69821, 69821>>, <<69826, 69826>>, <<69837, 69837>>, <<69888, 69890>>,
     <<69927, 69931>>, <<69933, 69940>>, <<70003, 70003>>, <<70016, 70017>>, <<70070, 70078>>,
     <<70089, 70092>>, <<70095, 70095>>, <<70191, 70193>>, <<70196, 70196>>, <<70198, 70199>>,
     <<70206, 70206>>, <<70367, 70367>>, <<70371, 70378>>, <<70400, 70401>>, <<70459, 70460>>,
     <<70464, 70464>>, <<70502, 70508>>, <<70512, 70516>>, <<70712, 70719>>, <<70722, 70724>>,
     <<70726, 70726>>, <<70750, 70750>>, <<70835, 70840>>, <<70842, 70842>>, <<70847, 70848>>,
     <<70850, 70851>>, <<71090, 71093>>, <<71100, 71101>>, <<71103, 71104>>, <<71132, 71133>>,
     <<71219, 71226>>, <<71229, 71229>>, <<71231, 71232>>, <<71339, 71339>>, <<71341, 71341>>,
     <<71344, 71349>>, <<71351, 71351>>, <<71453, 71455>>, <<71458, 71461>>, <<71463, 71467>>,
     <<71727, 71735>>, <<71737, 71738>>, <<71995, 71996>>, <<71998, 71998>>, <<72003, 72003>>,
     <<72148, 72151>>, <<72154, 72155>>, <<72160, 72160>>, <<72193, 72202>>, <<72243, 72248>>,
     <<72251, 72254>>, <<72263, 72263>>, <<72273, 72278>>, <<72281, 72283>>, <<72330, 72342>>,
     <<72344, 72345>>, <<72752, 72758>>, <<72760, 72765>>, <<72767, 72767>>, <<72850, 72871>>,
     <<72874, 72880>>, <<72882, 72883>>, <<72885, 72886>>, <<73009, 73014>>, <<73018, 73018>>,
     <<73020, 73021>>, <<73023, 73029>>, <<73031, 73031>>, <<73104, 73105>>, <<73109, 73109>>,
     <<73111, 73111>>, <<73459, 73460>>, <<78896, 78904>>, <<92912, 92916>>, <<92976, 92982>>,
     <<92992, 92995>>, <<94031, 94031>>, <<94095, 94111>>, <<94176, 94177>>, <<94179, 94180>>,
     <<110576, 110579>>, <<110581, 110587>>, <<110589, 110590>>, <<113821, 113822>>, <<113824, 113827>>,
     <<118528, 118573>>, <<118576, 118598>>, <<119143, 119145>>, <<119155, 119170>>, <<119173, 119179>>,
     <<119210, 119213>>, <<119362, 119364>>, <<121344, 121398>>, <<121403, 121452>>, <<121461, 121461>>,
     <<121476, 121476>>, <<121499, 121503>>, <<121505, 121519>>, <<122880, 122886>>, <<122888, 122904>>,
     <<122907, 122913>>, <<122915, 122916>>, <<122918, 122922>>, <<123184, 123197>>, <<123566, 123566>>,
     <<123628, 123631>>, <<125136, 125142>>, <<125252, 125259>>, <<127995, 127999>>, <<917505, 917505>>,
     <<917536, 917631>>, <<917760, 917999>>}

\* str.lower(): the cased code points that are not case-ignorable, as
\* <<first, last>> ranges
CASED ==
    {<<65, 90>>, <<97, 122>>, <<170, 170>>, <<181, 181>>, <<186, 186>>,
     <<192, 214>>, <<216, 246>>, <<248, 442>>, <<444, 447>>, <<452, 659>>,
     <<661, 687>>, <<880, 883>>, <<886, 887>>, <<891, 893>>, <<895, 895>>,
     <<902, 902>>, <<904, 906>>, <<908, 908>>, <<910, 929>>, <<931, 1013>>,
     <<1015, 1153>>, <<1162, 1327>>, <<1329, 1366>>, <<1376, 1416>>, <<4256, 4293>>,
     <<4295, 4295>>, <<4301, 4301>>, <<4304, 4346>>, <<4349, 4351>>, <<5024, 5109>>,
     <<5112, 5117>>, <<7296, 7304>>, <<7312, 7354>>, <<7357, 7359>>, <<7424, 7467>>,
     <<7531, 7543>>, <<7545, 7578>>, <<7680, 7957>>, <<7960, 7965>>, <<7968, 8005>>,
     <<8008, 8013>>, <<8016, 8023>>, <<8025, 8025>>, <<8027, 8027>>, <<8029, 8029>>,
     <<8031, 8061>>, <<8064, 8116>>, <<8118, 8124>>, <<8126, 8126>>, <<8130, 8132>>,
     <<8134, 8140>>, <<8144, 8147>>, <<8150, 8155>>, <<8160, 8172>>, <<8178, 8180>>,
     <<8182, 8188>>, <<8450, 8450>>, <<8455, 8455>>, <<8458, 8467>>, <<8469, 8469>>,
     <<8473, 8477>>, <<8484, 8484>>, <<8486, 8486>>, <<8488, 8488>>, <<8490, 8493>>,
     <<8495, 8500>>, <<8505, 8505>>, <<8508, 8511>>, <<8517, 8521>>, <<8526, 8526>>,
     <<8544, 8575>>, <<8579, 8580>>, <<9398, 9449>>, <<11264, 11387>>, <<11390, 11492>>,
     <<11499, 11502>>, <<11506, 11507>>, <<11520, 11557>>, <<11559, 11559>>, <<11565, 11565>>,
     <<42560, 42605>>, <<42624, 42651>>, <<42786, 42863>>, <<42865, 42887>>, <<42891, 42894>>,
     <<42896, 42954>>, <<42960, 42961>>, <<42963, 42963>>, <<42965, 42969>>, <<42997, 42998>>,
     <<43002, 43002>>, <<43824, 43866>>, <<43872, 43880>>, <<43888, 43967>>, <<64256, 64262>>,
     <<64275, 64279>>, <<65313, 65338>>, <<65345, 65370>>, <<66560, 66639>>, <<66736, 66771>>,
     <<66776, 66811>>, <<66928, 66938>>, <<66940, 66954>>, <<66956, 66962>>, <<66964, 66965>>,
     <<66967, 66977>>, <<66979, 66993>>, <<66995, 67001>>, <<67003, 67004>>, <<68736, 68786>>,
     <<68800, 68850>>, <<71840, 71903>>, <<93760, 93823>>, <<119808, 119892>>, <<119894, 119964>>,
     <<119966, 119967>>, <<119970, 119970>>, <<119973, 119974>>, <<119977, 119980>>, <<119982, 119993>>,
     <<119995, 119995>>, <<119997, 120003>>, <<120005, 120069>>, <<120071, 120074>>, <<120077, 120084>>,
     <<120086, 120092>>, <<120094, 120121>>, <<120123, 120126>>, <<120128, 120132>>, <<120134, 120134>>,
     <<120138, 120144>>, <<120146, 120485>>, <<120488, 120512>>, <<120514, 120538>>, <<120540, 120570>>,
     <<120572, 120596>>, <<120598, 120628>>, <<120630, 120654>>, <<120656, 120686>>, <<120688, 120712>>,
     <<120714, 120744>>, <<120746, 120770>>, <<120772, 120779>>, <<122624, 122633>>, <<122635, 122654>>,
     <<125184, 125251>>, <<127280, 127305>>, <<127312, 127337>>, <<127344, 127369>>}

IsCaseIgnorable(c) == \E r \in CASE_IGNORABLE : c \in r[1]..r[2]

IsCased(c) == \E r \in CASED : c \in r[1]..r[2]

\* the lower-case form of a code point that lower-cases to one code point
LowerOne(c) ==
    LET hit == {r \in LOWERCASE : c \in r[1]..r[2] /\ (c - r[1]) % r[3] = 0}
    IN  IF c < 128 THEN (IF c \in 65..90 THEN c + 32 ELSE c)
        ELSE IF hit = {} THEN c
        ELSE c + (CHOOSE r \in hit : TRUE)[4]

\* str.lower() on U+03A3: the sigma at s[i] is final when the nearest
\* character before it that is not case-ignorable is cased, and the nearest
\* one after it, if any, is not
FinalSigma(s, i) ==
    LET before == {j \in 1..(i - 1) : ~IsCaseIgnorable(s[j])}
        after == {j \in (i + 1)..Len(s) : ~IsCaseIgnorable(s[j])}
        prev == CHOOSE j \in before : \A k \in before : k <= j
        next == CHOOSE j \in after : \A k \in after : j <= k
    IN  /\ before # {}
        /\ IsCased(s[prev])
        /\ after = {} \/ ~IsCased(s[next])

\* str.lower() of the character at s[i]: U+03A3 becomes the final or the
\* medial small sigma, U+0130 becomes i followed by a combining dot above,
\* any other character becomes one character
LowerAt(s, i) ==
    IF s[i] = 931 THEN <<IF FinalSigma(s, i) THEN 962 ELSE 963>>
    ELSE IF s[i] = 304 THEN <<105, 775>>
    ELSE <<LowerOne(s[i])>>

\* str.lower(): the lower-case forms of the characters, in order
Lower(s) ==
    LET start(i) == i + Cardinality({j \in 1..(i - 1) : s[j] = 304})
        n == Len(s) + Cardinality({j \in 1..Len(s) : s[j] = 304})
    IN  [k \in 1..n |->
            LET i == CHOOSE j \in 1..Len(s) :
                         start(j) <= k /\ k < start(j) + Len(LowerAt(s, j))
            IN  LowerAt(s, i)[k - start(i) + 1]]

\* w in lower: substring test
Contains(hay, needle) ==
    \E i \in 0..(Len(hay) - Len(needle)) :
        SubSeq(hay, i + 1, i + Len(needle)) = needle

\* the keyword tuples of _get_mock_response, in the order they are tested,
\* each with the index of the canned response it selects
MOCK_KEYWORDS ==
    <<[idx |-> 1,    \* weather, wind, wave, rain, storm, sea condition
       words |-> <<
          <<119, 101, 97, 116, 104, 101, 114>>,
          <<119, 105, 110, 100>>,
          <<119, 97, 118, 101>>,
          <<114, 97, 105, 110>>,
          <<115, 116, 111, 114, 109>>,
          <<115, 101, 97, 32, 99, 111, 110, 100, 105, 116, 105, 111, 110>>>>],
      [idx |-> 2,    \* price, market, sell, buy, rate, cost
       words |-> <<
          <<112, 114, 105, 99, 101>>,
          <<109, 97, 114, 107, 101, 116>>,
          <<115, 101, 108, 108>>,
          <<98, 117, 121>>,
          <<114, 97, 116, 101>>,
          <<99, 111, 115, 116>>>>],
      [idx |-> 3,    \* regulation, ban, license, scheme, government, subsidy
       words |-> <<
          <<114, 101, 103, 117, 108, 97, 116, 105, 111, 110>>,
          <<98, 97, 110>>,
          <<108, 105, 99, 101, 110, 115, 101>>,
          <<115, 99, 104, 101, 109, 101>>,
          <<103, 111, 118, 101, 114, 110, 109, 101, 110, 116>>,
          <<115, 117, 98, 115, 105, 100, 121>>>>],
      [idx |-> 4,    \* quality, ice, fresh, preserve, store, grade
       words |-> <<
          <<113, 117, 97, 108, 105, 116, 121>>,
          <<105, 99, 101>>,
          <<102, 114, 101, 115, 104>>,
          <<112, 114, 101, 115, 101, 114, 118, 101>>,
          <<115, 116, 111, 114, 101>>,
          <<103, 114, 97, 100, 101>>>>]>>

\* _MOCK_RESPONSES_BY_LANG: the languages that have a canned set
MOCK_LANGS == {"en", "ta"}

\* _MOCK_RESPONSES_BY_LANG[set][idx]: a canned text, named by its place
MockText(set, idx) == [t |-> "mock", set |-> set, idx |-> idx]

\* _MOCK_RESPONSES_BY_LANG.get(language, _MOCK_RESPONSES_BY_LANG["en"])
MockSet(language) == IF language \in MOCK_LANGS THEN language ELSE "en"

\* _get_mock_response returning the response of the last keyword set that
\* has a keyword in the input
get_mock_response_last_set(user_input, language) ==
    LET lower == Lower(user_input)
        hits == SelectSeq(MOCK_KEYWORDS,
                    LAMBDA g : \E k \in DOMAIN g.words : Contains(lower, g.words[k]))
    IN  IF hits # <<>> THEN MockText(MockSet(language), hits[Len(hits)].idx)
        ELSE MockText(MockSet(language), 0)

\* _get_mock_response(user_input, language)
get_mock_response(user_input, language) ==
    LET lower == Lower(user_input)
        hits == SelectSeq(MOCK_KEYWORDS,
                    LAMBDA g : \E k \in DOMAIN g.words : Contains(lower, g.words[k]))
    IN  IF hits # <<>> THEN MockText(MockSet(language), Head(hits).idx)
        ELSE MockText(MockSet(language), 0)

\* inputs of the keyword router:
\*   'rain'  (rain)
\*   'RAIN'  (upper case)
\*   'brain'  (keyword inside a word)
\*   'price'  (holds price and ice)
\*   'ice'
\*   'urban'  (holds ban)
\*   'sell ice now'  (two topics)
\*   'banrain'  (regulation keyword before weather keyword)
\*   'hello'  (no keyword)
\*   ''  (empty)
\*   'store'
\*   'Wave? Cost!'
\*   three Tamil letters
\*   'mar', U+212A KELVIN SIGN, 'et'  (lower-cases to 'market')
\*   U+0130 LATIN CAPITAL LETTER I WITH DOT ABOVE, 'CE'  (lower-cases to 'i',
\*       U+0307, 'ce', which does not hold 'ice')
MockTexts ==
    {<<114, 97, 105, 110>>,
     <<82, 65, 73, 78>>,
     <<98, 114, 97, 105, 110>>,
     <<112, 114, 105, 99, 101>>,
     <<105, 99, 101>>,
     <<117, 114, 98, 97, 110>>,
     <<115, 101, 108, 108, 32, 105, 99, 101, 32, 110, 111, 119>>,
     <<98, 97, 110, 114, 97, 105, 110>>,
     <<104, 101, 108, 108, 111>>,
     <<>>,
     <<115, 116, 111, 114, 101>>,
     <<87, 97, 118, 101, 63, 32, 67, 111, 115, 116, 33>>,
     <<2965, 2965, 2965>>,
     <<109, 97, 114, 8490, 101, 116>>,
     <<304, 67, 69>>}

MockInit ==
    /\ text \in MockTexts
    /\ lang \in GuardLangs
    /\ result = None
    /\ fpc = "input"
    /\ IdleTurn

\* one call of _get_mock_response(text, lang)
MockRespond ==
    /\ fpc = "input"
    /\ result' = [t |-> "_get_mock_response", text |-> get_mock_response(text, lang)]
    /\ fpc' = "done"
    /\ UNCHANGED <<text, lang>>
    /\ UNCHANGED turnVars

MockNext == MockRespond

SpecMock == MockInit /\ [][MockNext]_vars

--------------------------------------------------------------------------
(***************************************************************************)
(* Texts and messages.                                                     *)
(***************************************************************************)

\* the empty string
EmptyText == [t |-> "empty"]

\* a text typed by the user
InputText(cps) == [t |-> "input", cps |-> cps]

\* Python truthiness of an optional text: None and "" are falsy, and so is
\* a message content that is an empty list of blocks
Truthy(c) ==
    ~(\/ c.t = "None"
      \/ c.t = "empty"
      \/ (c.t = "input" /\ c.cps = <<>>)
      \/ (c.t = "blocks" /\ c.blocks = <<>>))

\* langchain_core.messages constructors
SystemMessage(content) == [type |-> "system", content |-> content]
HumanMessage(content) == [type |-> "human", content |-> content]
AIMessage(content, tool_calls) ==
    [type |-> "ai", content |-> content, tool_calls |-> tool_calls]
ToolMessage(content, tool_call_id) ==
    [type |-> "tool", content |-> content, tool_call_id |-> tool_call_id]

Min(a, b) == IF a < b THEN a ELSE b

\* seq[-1]
Last(seq) == seq[Len(seq)]

--------------------------------------------------------------------------
(***************************************************************************)
(* memory/dynamodb_store.py and memory/manager.py                          *)
(***************************************************************************)

\* config/settings.py: the short-term window W
SHORT_TERM_MESSAGE_LIMIT == 10

\* the limit build_message_history and maybe_update_summary pass to get_messages
HISTORY_FETCH_LIMIT == 500

\* str[:500] in tool_executor
TOOL_OUTPUT_LOG_CHARS == 500

\* body.message[:60] in send_message
TITLE_CHARS == 60

\* content[:300] in _summarize_messages
TRANSCRIPT_CHARS == 300

\* uuid.uuid4().hex[:3]: the random suffix of a message's sort key; two of
\* its 4096 values, the lowest and the highest
Suffixes == {"000", "fff"}

\* now_iso of save_message: the second of the clock, then the random suffix
Timestamp(sec, sfx) == [sec |-> sec, sfx |-> sfx]

\* the string order of two sort keys
TsLess(a, b) ==
    \/ a.sec < b.sec
    \/ a.sec = b.sec /\ a.sfx = "000" /\ b.sfx = "fff"

\* MockTable.put_item (and DynamoDB PutItem): an item whose key is already
\* in the table replaces the item that has it
put_item(items, item) ==
    Append(SelectSeq(items, LAMBDA i : i.timestamp # item.timestamp), item)

\* MockTable.query (and DynamoDB Query): the conversation's items in the
\* order of their sort key
query(items) ==
    SortSeq(items, LAMBDA a, b : TsLess(a.timestamp, b.timestamp))

\* create_conversation: the item put in the conversations table
create_conversation(user_id, title, language) ==
    [userId |-> user_id, title |-> title, language |-> language,
     summary |-> EmptyText, messageCount |-> 0]

\* update_conversation(conversation_id, **kwargs): SET the given fields
update_conversation(c, fields) ==
    [k \in DOMAIN c |-> IF k \in DOMAIN fields THEN fields[k] ELSE c[k]]

\* save_message: put one item, keyed by now_iso, in the messages table
save_message(items, role, content, tool_calls, now_iso) ==
    put_item(items,
        IF tool_calls # <<>>
        THEN [role |-> role, content |-> content, timestamp |-> now_iso,
              toolCalls |-> tool_calls]
        ELSE [role |-> role, content |-> content, timestamp |-> now_iso])

\* get_messages(conversation_id, limit, ascending=True): the table's query
\* cuts the sorted items with matched[:limit] only when limit is truthy, so
\* a limit of 0 returns every message and a negative limit drops that many
\* from the end
get_messages(items, limit) ==
    LET matched == query(items)
    IN  IF limit = 0 THEN matched
        ELSE IF limit > 0 THEN SubSeq(matched, 1, Min(limit, Len(matched)))
        ELSE SubSeq(matched, 1, IF Len(matched) + limit > 0
                                THEN Len(matched) + limit ELSE 0)

\* count_messages(conversation_id)
count_messages(items) == Len(query(items))

\* str.strip(): a text of whitespace only becomes "", whitespace around a
\* text is dropped
Blank == [t |-> "blank"]
Pad(txt) == [t |-> "padded", of |-> txt]
Strip(txt) ==
    IF txt.t = "blank" THEN EmptyText
    ELSE IF txt.t = "padded" THEN txt.of
    ELSE txt

\* the fallback text of _call_bedrock_for_text
SummaryUnavailable == [t |-> "summary_unavailable"]

\* _call_bedrock_for_text letting None stand for the text of a failed call
call_bedrock_for_text_none(reply) ==
    IF reply.ok THEN reply.text ELSE None

\* _call_bedrock_for_text(prompt): the model's text, or the fallback text
\* when the call raises
call_bedrock_for_text(reply) ==
    IF reply.ok THEN reply.text ELSE SummaryUnavailable

\* _to_langchain_messages(raw)
to_langchain_messages(raw) ==
    LET known == SelectSeq(raw, LAMBDA m :
                    m.role \in {"user", "human", "assistant", "ai", "system"})
    IN  [i \in DOMAIN known |->
            IF known[i].role \in {"user", "human"}
            THEN HumanMessage(known[i].content)
            ELSE IF known[i].role \in {"assistant", "ai"}
            THEN AIMessage(known[i].content, <<>>)
            ELSE SystemMessage(known[i].content)]

\* all_messages[:-SHORT_TERM_MESSAGE_LIMIT]
OlderThanWindow(all) ==
    SubSeq(all, 1, IF Len(all) > SHORT_TERM_MESSAGE_LIMIT
                   THEN Len(all) - SHORT_TERM_MESSAGE_LIMIT ELSE 0)

\* m.get('content', '')[:300]
First300(txt) == [t |-> "prefix", chars |-> TRANSCRIPT_CHARS, of |-> txt]

\* the transcript _summarize_messages puts in its prompt
Transcript(older) ==
    [i \in DOMAIN older |->
        [speaker |-> IF older[i].role \in {"user", "human"}
                     THEN "User" ELSE "Assistant",
         content |-> First300(older[i].content)]]

\* _summarize_messages(messages): the summarizer's text for these
\* messages; the model may answer with a summary or with an empty text, or
\* the call may fail
summarize_messages(older, reply) ==
    call_bedrock_for_text(
        IF reply.ok /\ Truthy(reply.text)
        THEN [ok |-> TRUE, text |-> [t |-> "summary", of |-> Transcript(older)]]
        ELSE reply)

\* build_message_history(conversation_id) -> (recent_lc, summary), whether
\* it called the summarizer, and the conversation record it leaves
build_message_history(items, c, reply) ==
    LET all_messages == get_messages(items, HISTORY_FETCH_LIMIT)
        total == Len(all_messages)
        recent_raw ==
            IF total > SHORT_TERM_MESSAGE_LIMIT
            THEN SubSeq(all_messages, total - SHORT_TERM_MESSAGE_LIMIT + 1, total)
            ELSE all_messages
        cached == IF c # None /\ Truthy(c.summary) THEN c.summary ELSE None
        generate == total > SHORT_TERM_MESSAGE_LIMIT /\ ~Truthy(cached)
        summary ==
            IF generate
            THEN summarize_messages(OlderThanWindow(all_messages), reply)
            ELSE cached
    IN  [recent |-> to_langchain_messages(recent_raw),
         summary |-> summary,
         summarized |-> generate,
         conv |-> IF generate /\ c # None
                  THEN update_conversation(c, [summary |-> summary])
                  ELSE c]

\* maybe_update_summary(conversation_id): the conversation record afterwards
maybe_update_summary(items, c, reply) ==
    IF count_messages(items) <= SHORT_TERM_MESSAGE_LIMIT THEN c
    ELSE update_conversation(c,
            [summary |-> summarize_messages(
                OlderThanWindow(get_messages(items, HISTORY_FETCH_LIMIT)), reply)])

\* "No facts recorded yet."
NoFactsYet == [t |-> "no_facts_recorded_yet"]

\* get_long_term_memory(user_id) or "No facts recorded yet."
ExistingFacts(facts) == IF Truthy(facts) THEN facts ELSE NoFactsYet

\* the fact list the extraction model writes when the exchange holds new facts
Merged(existing) == [t |-> "facts", extends |-> existing]

\* the outcomes of the store during one extraction: it works, the lookup of
\* the facts raises, or the write of the facts raises
StoreOutcomes == {"ok", "get_raises", "put_raises"}

--------------------------------------------------------------------------
(***************************************************************************)
(* extract_and_update_long_term_memory called on its own.                  *)
(***************************************************************************)

\* extract_and_update_long_term_memory storing the text as it came
extract_and_update_unstripped(facts, reply, store) ==
    LET updated == call_bedrock_for_text(reply)
        kept(raised) == [raised |-> raised, put |-> FALSE, facts |-> facts]
    IN  IF store = "get_raises" THEN kept(TRUE)
        ELSE IF ~Truthy(Strip(updated)) THEN kept(FALSE)
        ELSE IF store = "put_raises" THEN kept(TRUE)
        ELSE [raised |-> FALSE, put |-> TRUE, facts |-> updated]

\* extract_and_update_long_term_memory on the facts it read before the
\* extraction model was awaited: whether an exception leaves the function,
\* whether update_long_term_memory is called, and the blob it writes then
\* (the facts as read when it writes nothing)
extract_and_update_long_term_memory(facts, reply, store) ==
    LET updated == call_bedrock_for_text(reply)
        kept(raised) == [raised |-> raised, put |-> FALSE, facts |-> facts]
    IN  IF store = "get_raises" THEN kept(TRUE)
        ELSE IF ~Truthy(Strip(updated)) THEN kept(FALSE)
        ELSE IF store = "put_raises" THEN kept(TRUE)
        ELSE [raised |-> FALSE, put |-> TRUE, facts |-> Strip(updated)]

\* the replies the extraction model may give to a prompt that holds the
\* existing facts: the facts unchanged (with or without whitespace around
\* them), a merged fact list, a blank text, an empty text, or an exception
FactReplies(existing) ==
    {[ok |-> TRUE, text |-> existing],
     [ok |-> TRUE, text |-> Pad(existing)],
     [ok |-> TRUE, text |-> Merged(existing)],
     [ok |-> TRUE, text |-> Blank],
     [ok |-> TRUE, text |-> EmptyText],
     [ok |-> FALSE]}

\* a user without stored facts, and no call made yet
MemoryInit ==
    /\ text = <<>>
    /\ lang = "en"
    /\ result = [t |-> "extract_and_update_long_term_memory", calls |-> <<>>]
    /\ fpc = "input"
    /\ human_input = InputText(<<>>)
    /\ selected_language = "en"
    /\ language_accepted = "unset"
    /\ language_rejection = [t |-> "unset"]
    /\ messages = <<>>
    /\ tool_outputs = <<>>
    /\ pc = "idle"
    /\ visited = <<>>
    /\ llm_calls = 0
    /\ next_call_id = 1
    /\ mem_calls = 0
    /\ last_llm = "none"
    /\ issued = <<>>
    /\ conv = None
    /\ local_conv = None
    /\ stored = <<>>
    /\ ltm = None
    /\ response = None
    /\ clock = 0
    /\ mem_outcome = "none"
    /\ summary_call = "none"
    /\ locals = None

\* the calls in flight: begun and waiting for the extraction model
InFlight(calls) == {k \in DOMAIN calls : calls[k].at = "await"}

\* the number of calls begun plus the number of calls ended so far
Events(calls) ==
    Len(calls) + Cardinality({k \in DOMAIN calls : calls[k].at = "done"})

\* a call of extract_and_update_long_term_memory for the user begins
\* (manager.py:129-143): the facts are looked up; when the lookup raises the
\* call is over, otherwise the extraction model is awaited and other calls
\* may begin or end meanwhile
Extract ==
    /\ Len(result.calls) < MaxExtracts
    /\ \E lookup \in {"ok", "get_raises"} :
          LET now == Events(result.calls) + 1
              r == extract_and_update_long_term_memory(ltm, [ok |-> FALSE], lookup)
          IN  result' = [result EXCEPT !.calls = Append(@,
                 [at |-> IF r.raised THEN "done" ELSE "await",
                  began |-> now, ended |-> IF r.raised THEN now ELSE 0,
                  before |-> ltm, reply |-> None, store |-> lookup,
                  raised |-> r.raised, put |-> FALSE, after |-> ltm])]
    /\ UNCHANGED <<text, lang, fpc, messages, tool_outputs, conv, stored, ltm,
                   clock>>
    /\ UNCHANGED ctlVars

\* the extraction model answers a waiting call (manager.py:143-145): a
\* non-blank list, built by the model from the facts the call read before
\* it waited, is written over whatever the store holds by now
ExtractReturn ==
    /\ \E k \in InFlight(result.calls) :
          LET call == result.calls[k]
          IN  \E reply \in FactReplies(ExistingFacts(call.before)),
                 store \in {"ok", "put_raises"} :
                 LET r == extract_and_update_long_term_memory(call.before,
                                                             reply, store)
                     facts == IF r.put THEN r.facts ELSE ltm
                 IN  /\ ltm' = facts
                     /\ result' = [result EXCEPT !.calls[k] =
                            [call EXCEPT !.at = "done",
                                         !.ended = Events(result.calls) + 1,
                                         !.reply = reply, !.store = store,
                                         !.raised = r.raised, !.put = r.put,
                                         !.after = facts]]
    /\ fpc' = "done"
    /\ UNCHANGED <<text, lang, messages, tool_outputs, conv, stored, clock>>
    /\ UNCHANGED ctlVars

MemoryNext ==
    \/ Extract
    \/ ExtractReturn

SpecMemory == MemoryInit /\ [][MemoryNext]_vars

--------------------------------------------------------------------------
(***************************************************************************)
(* core/prompts.py                                                         *)
(***************************************************************************)

\* build_system_prompt(selected_language, summary, long_term_memory)
build_system_prompt(selected_lang, summary, long_term_memory) ==
    [t |-> "system_prompt",
     lang_label |-> DictGet(LANGUAGE_LABELS, selected_lang, "English"),
     selected_language |-> selected_lang,
     summary |-> IF Truthy(summary) THEN summary ELSE None,
     long_term_memory |-> IF Truthy(long_term_memory) THEN long_term_memory ELSE None]

--------------------------------------------------------------------------
(***************************************************************************)
(* core/graph.py: the nodes and the routing functions.                     *)
(***************************************************************************)

\* TOOL_MAP: the names of the registered tools
TOOL_MAP ==
    {"get_weather", "get_catch_history", "get_catch_details",
     "get_map_data", "get_market_prices"}

\* The tool implementations (tools/*.py) as the executor sees them: a call
\* either returns a text or raises.  get_weather requires latitude and
\* longitude (tools/weather.py:36); a call without them raises.
ToolRaises(name, args) == args = "no_coords"
ToolException(name, args) == [t |-> "exception", tool |-> name, args |-> args]
ToolReturn(name, args) == [t |-> "tool_result", tool |-> name, args |-> args]

\* f"Tool error: {e}" and f"Unknown tool: {tool_name}"
ToolErrorText(e) == [t |-> "tool_error", e |-> e]
UnknownToolText(name) == [t |-> "unknown_tool", name |-> name]

\* the log entry keeping the whole result text
First500Whole(txt) == txt

\* str(result)[:500]
First500(txt) == [t |-> "prefix", chars |-> TOOL_OUTPUT_LOG_CHARS, of |-> txt]

\* language_guard node: the state update it returns
language_guard(input, selected_lang) ==
    LET v == validate_language(input.cps, selected_lang)
        canned == get_rejection_message(selected_lang)
    IN  IF v[1] = FALSE
        THEN [language_accepted |-> "False",
              language_rejection |->
                 IF Truthy(v[2])
                 THEN [t |-> "rejection", reason |-> v[2], canned |-> canned]
                 ELSE canned]
        ELSE [language_accepted |-> "True", language_rejection |-> None]

\* route_language sending every turn on to load_context
route_language_always_continue(accepted) == "load_context"

\* route_language(state)
route_language(accepted) ==
    IF accepted = "True" THEN "load_context" ELSE "END"

\* load_context node: the running message list it composes
load_context(history, input, selected_lang, facts) ==
    <<SystemMessage(build_system_prompt(selected_lang, history.summary, facts))>>
        \o history.recent
        \o <<HumanMessage(input)>>

\* the except branch of agent with the mock text left out of the message
AgentFallbackNoContent(input, selected_lang) == AIMessage(EmptyText, <<>>)

\* the except branch of agent: AIMessage(content=mock_text)
AgentFallback(input, selected_lang) ==
    AIMessage(get_mock_response(input.cps, selected_lang), <<>>)

\* what llm.ainvoke does: it raises, or returns an AIMessage
LlmFailure == [type |-> "exception"]

\* agent node: the running message list it returns
agent(msgs, input, selected_lang, reply) ==
    msgs \o << IF reply = LlmFailure
               THEN AgentFallback(input, selected_lang)
               ELSE reply >>

\* route_agent looking at the content of the last message, not at its tool calls
route_agent_by_content(msgs) ==
    IF msgs # <<>> /\ Last(msgs).type = "ai" /\ ~Truthy(Last(msgs).content)
    THEN "tool_executor"
    ELSE "memory_update"

\* route_agent(state)
route_agent(msgs) ==
    IF msgs # <<>> /\ Last(msgs).type = "ai" /\ Last(msgs).tool_calls # <<>>
    THEN "tool_executor"
    ELSE "memory_update"

\* the body of the executor's loop without its try/except and without its
\* "in TOOL_MAP" test: a failing or unknown tool raises out of the node
ExecCallUnguarded(call) ==
    IF call.name \in TOOL_MAP /\ ~ToolRaises(call.name, call.args)
    THEN [raised |-> FALSE, result |-> ToolReturn(call.name, call.args)]
    ELSE [raised |-> TRUE, result |-> ToolException(call.name, call.args)]

\* the body of the loop at graph.py:196: the result text of one call, and
\* whether an exception leaves the loop
ExecCall(call) ==
    IF call.name \in TOOL_MAP
    THEN IF ToolRaises(call.name, call.args)
         THEN [raised |-> FALSE,
               result |-> ToolErrorText(ToolException(call.name, call.args))]
         ELSE [raised |-> FALSE, result |-> ToolReturn(call.name, call.args)]
    ELSE [raised |-> FALSE, result |-> UnknownToolText(call.name)]

\* tool_executor recording the results in tool_outputs only: the running
\* message list gets no tool-result entry
tool_executor_outputs_only(msgs, outs) ==
    LET last_msg == Last(msgs)
    IN  IF ~(last_msg.type = "ai" /\ last_msg.tool_calls # <<>>)
        THEN [messages |-> msgs, tool_outputs |-> outs, raised |-> FALSE]
        ELSE
          LET calls == last_msg.tool_calls
              ran == [i \in DOMAIN calls |-> ExecCall(calls[i])]
          IN  [messages |-> msgs,
               tool_outputs |-> outs \o
                   [i \in DOMAIN calls |->
                       [tool |-> calls[i].name, args |-> calls[i].args,
                        result |-> First500(ran[i].result)]],
               raised |-> FALSE]

\* tool_executor node: the messages and tool_outputs it returns
tool_executor(msgs, outs) ==
    LET last_msg == Last(msgs)
    IN  IF ~(last_msg.type = "ai" /\ last_msg.tool_calls # <<>>)
        THEN [messages |-> msgs, tool_outputs |-> outs, raised |-> FALSE]
        ELSE
          LET calls == last_msg.tool_calls
              ran == [i \in DOMAIN calls |-> ExecCall(calls[i])]
          IN  IF \E i \in DOMAIN calls : ran[i].raised
              THEN [messages |-> msgs, tool_outputs |-> outs, raised |-> TRUE]
              ELSE [messages |-> msgs \o
                        [i \in DOMAIN calls |->
                            ToolMessage(ran[i].result, calls[i].id)],
                    tool_outputs |-> outs \o
                        [i \in DOMAIN calls |->
                            [tool |-> calls[i].name, args |-> calls[i].args,
                             result |-> First500(ran[i].result)]],
                    raised |-> FALSE]

\* the last AI message that has content and no tool calls: its content, or ""
\* (the reversed() loops of memory_update and send_message)
LastAiText(msgs) ==
    LET hits == {i \in DOMAIN msgs :
                    /\ msgs[i].type = "ai"
                    /\ Truthy(msgs[i].content)
                    /\ msgs[i].tool_calls = <<>>}
    IN  IF hits = {} THEN EmptyText
        ELSE msgs[CHOOSE i \in hits : \A j \in hits : j <= i].content

\* memory_update without its try/except: an exception of the extraction
\* leaves the node
memory_update_unguarded(msgs, facts, reply, store) ==
    IF Truthy(LastAiText(msgs))
    THEN LET r == extract_and_update_long_term_memory(facts, reply, store)
         IN  [facts |-> r.facts, put |-> r.put, raised |-> r.raised,
              outcome |-> IF r.raised THEN "raised"
                          ELSE IF r.facts = facts THEN "unchanged" ELSE "stored"]
    ELSE [facts |-> facts, put |-> FALSE, raised |-> FALSE, outcome |-> "skipped"]

\* memory_update node on the facts its extraction read: whether the blob is
\* written and with what, whether an exception leaves the node, and what the
\* extraction did
memory_update(msgs, facts, reply, store) ==
    IF Truthy(LastAiText(msgs))
    THEN LET r == extract_and_update_long_term_memory(facts, reply, store)
         IN  [facts |-> r.facts, put |-> r.put, raised |-> FALSE,
              outcome |-> IF r.raised THEN "raised"
                          ELSE IF r.facts = facts THEN "unchanged" ELSE "stored"]
    ELSE [facts |-> facts, put |-> FALSE, raised |-> FALSE, outcome |-> "skipped"]

--------------------------------------------------------------------------
(***************************************************************************)
(* tool_executor run on its own.                                           *)
(***************************************************************************)

\* the tool-call requests a model reply may carry: name and arguments
ToolCallKinds ==
    {[name |-> "get_weather", args |-> "coords"],
     [name |-> "get_weather", args |-> "no_coords"],
     [name |-> "get_tides", args |-> "coords"]}

\* the lists of at most n tool-call requests, with the ids the model gives
\* them, starting at first_id
CallLists(n, first_id) ==
    {[i \in DOMAIN calls |->
          [name |-> calls[i].name, args |-> calls[i].args, id |-> first_id + i - 1]] :
        calls \in UNION {[1..k -> ToolCallKinds] : k \in 1..n}}

\* the message lists tool_executor is run on: the last message is an
\* assistant message with tool-call requests, an assistant message without
\* any, or the user's message
ToolsInit ==
    /\ \E c \in {[t |-> "model_text"], EmptyText} :
          messages \in
             {<<HumanMessage(InputText(<<114, 97, 105, 110>>)), AIMessage(c, calls)>> :
                  calls \in CallLists(MaxCalls, 1) \cup {<<>>}}
             \cup {<<HumanMessage(InputText(<<114, 97, 105, 110>>))>>}
    /\ text = <<>>
    /\ lang = "en"
    /\ result = None
    /\ fpc = "input"
    /\ human_input = InputText(<<114, 97, 105, 110>>)
    /\ selected_language = "en"
    /\ language_accepted = "True"
    /\ language_rejection = None
    /\ tool_outputs = <<>>
    /\ pc = "idle"
    /\ visited = <<>>
    /\ llm_calls = 0
    /\ next_call_id = 1
    /\ mem_calls = 0
    /\ last_llm = "none"
    /\ issued = <<>>
    /\ conv = None
    /\ local_conv = None
    /\ stored = <<>>
    /\ ltm = None
    /\ response = None
    /\ clock = 0
    /\ mem_outcome = "none"
    /\ summary_call = "none"
    /\ locals = None

\* one run of tool_executor on the message list
ToolsRun ==
    /\ fpc = "input"
    /\ LET out == tool_executor(messages, tool_outputs)
       IN  /\ messages' = out.messages
           /\ tool_outputs' = out.tool_outputs
           /\ result' = [t |-> "tool_executor", raised |-> out.raised,
                         before |-> messages]
    /\ fpc' = "done"
    /\ UNCHANGED <<text, lang, human_input, selected_language, language_accepted,
                   language_rejection, pc, visited, llm_calls, next_call_id,
                   mem_calls, last_llm, issued, conv, local_conv, stored, ltm,
                   response, clock, mem_outcome,
                   summary_call, locals>>

ToolsNext == ToolsRun

SpecTools == ToolsInit /\ [][ToolsNext]_vars

--------------------------------------------------------------------------
(***************************************************************************)
(* routes/messages.py: send_message, and the graph run it awaits.          *)
(***************************************************************************)

\* the default title of a conversation: "New Chat"
NewChatTitle == [t |-> "title", cps |-> <<78, 101, 119, 32, 67, 104, 97, 116>>]

\* the user whose turn is modelled
User == "u1"

\* the message texts sent:
\*   "rain"  (Latin, a weather keyword)
\*   three Tamil letters
\*   three Devanagari letters
\*   "New Chat"  (the auto-title it gives is the default title)
TurnTexts ==
    {<<114, 97, 105, 110>>, <<2965, 2965, 2965>>, <<2325, 2325, 2325>>,
     <<78, 101, 119, 32, 67, 104, 97, 116>>}

\* the language the conversation was created with
ConvLangs == {"en", "hi"}

\* body.language: absent, or a per-message override
BodyLangs == {"", "ta", "pa"}

\* the replies llm.ainvoke may return when at most budget more tool-call
\* requests are enumerated: a final text (possibly empty), or one or more
\* tool-call requests with fresh call ids (with or without accompanying text)
ModelReplies(budget, first_id) ==
    {AIMessage([t |-> "model_text"], <<>>), AIMessage(EmptyText, <<>>)}
    \cup
    {AIMessage(c, [i \in DOMAIN calls |->
                      [name |-> calls[i].name, args |-> calls[i].args,
                       id |-> first_id + i - 1]]) :
        c \in {[t |-> "model_text"], EmptyText},
        calls \in UNION {[1..k -> ToolCallKinds] : k \in 1..budget}}

\* the replies the text model of _call_bedrock_for_text may give: a text,
\* a blank text, or an exception
TextModelReplies ==
    {[ok |-> TRUE, text |-> [t |-> "model_facts"]],
     [ok |-> TRUE, text |-> EmptyText],
     [ok |-> FALSE]}

\* body.message[:60] + (U+2026 if len(body.message) > 60 else ""): a title is
\* a string like the default one, so a message reading "New Chat" gives the
\* default title again
AutoTitle(cps) ==
    [t |-> "title",
     cps |-> SubSeq(cps, 1, Min(TITLE_CHARS, Len(cps)))
                 \o (IF Len(cps) > TITLE_CHARS THEN <<8230>> ELSE <<>>)]

\* the tool_calls_meta list collected from the newest message to the oldest
ToolCallsMetaNewestFirst(msgs) ==
    LET RECURSIVE Collect(_)
        Collect(i) ==
            IF i < 1 THEN <<>>
            ELSE (IF msgs[i].type = "ai"
                  THEN [k \in DOMAIN msgs[i].tool_calls |->
                          [name |-> msgs[i].tool_calls[k].name,
                           args |-> msgs[i].tool_calls[k].args]]
                  ELSE <<>>) \o Collect(i - 1)
    IN  Collect(Len(msgs))

\* the tool_calls_meta list of send_message
ToolCallsMeta(msgs) ==
    LET RECURSIVE Collect(_)
        Collect(i) ==
            IF i > Len(msgs) THEN <<>>
            ELSE (IF msgs[i].type = "ai"
                  THEN [k \in DOMAIN msgs[i].tool_calls |->
                          [name |-> msgs[i].tool_calls[k].name,
                           args |-> msgs[i].tool_calls[k].args]]
                  ELSE <<>>) \o Collect(i + 1)
    IN  Collect(1)

CouldNotGenerate == [t |-> "could_not_generate"]
GraphErrorText == [t |-> "graph_error"]
DefaultRejection == [t |-> "please_use_selected_language"]

\* a conversation on which past_turns turns were answered, one message a
\* second: its stored messages
PastMessages(past_turns) ==
    [k \in 1..(2 * past_turns) |->
        IF k % 2 = 1
        THEN [role |-> "user", content |-> InputText(<<114, 97, 105, 110>>),
              timestamp |-> Timestamp(k - 1, "000")]
        ELSE [role |-> "assistant", content |-> [t |-> "model_text"],
              timestamp |-> Timestamp(k - 1, "000")]]

\* ... and its conversation record
PastConversation(language, past_turns) ==
    IF past_turns = 0
    THEN create_conversation(User, NewChatTitle, language)
    ELSE update_conversation(create_conversation(User, NewChatTitle, language),
            [messageCount |-> 2 * past_turns,
             title |-> AutoTitle(<<114, 97, 105, 110>>)])

\* the turns already answered when the modelled turn starts: none, or as
\* many as fill the short-term window exactly
PastTurns == {0, SHORT_TERM_MESSAGE_LIMIT \div 2}

Init ==
    /\ text = <<>>
    /\ lang = "en"
    /\ result = None
    /\ fpc = "off"
    /\ human_input = InputText(<<>>)
    /\ selected_language = "en"
    /\ language_accepted = "unset"
    /\ language_rejection = [t |-> "unset"]
    /\ messages = <<>>
    /\ tool_outputs = <<>>
    /\ pc = "idle"
    /\ visited = <<>>
    /\ llm_calls = 0
    /\ next_call_id = 1
    /\ mem_calls = 0
    /\ last_llm = "none"
    /\ issued = <<>>
    /\ \E l \in ConvLangs, past_turns \in PastTurns :
          /\ conv = PastConversation(l, past_turns)
          /\ stored = PastMessages(past_turns)
          /\ clock = 2 * past_turns
    /\ local_conv = None
    /\ ltm = None
    /\ response = None
    /\ mem_outcome = "none"
    /\ summary_call = "none"
    /\ locals = None

\* send_message up to graph.ainvoke (messages.py:42-61)
SendMessage ==
    /\ pc = "idle"
    /\ conv # None /\ conv.userId = User
    /\ \E message \in TurnTexts, body_language \in BodyLangs, sfx \in Suffixes :
          /\ human_input' = InputText(message)
          /\ selected_language' =
                IF body_language # "" THEN body_language ELSE conv.language
          /\ stored' = save_message(stored, "user", InputText(message), <<>>,
                                    Timestamp(clock, sfx))
    /\ local_conv' = conv
    /\ messages' = <<>>
    /\ tool_outputs' = <<>>
    /\ pc' = "language_guard"
    /\ UNCHANGED <<language_accepted, language_rejection, visited, llm_calls,
                   next_call_id, mem_calls, last_llm, issued, conv, ltm, response,
                   clock, mem_outcome,
                   summary_call, locals>>
    /\ UNCHANGED fnVars

\* node language_guard, then route_language
LanguageGuard ==
    /\ pc = "language_guard"
    /\ LET upd == language_guard(human_input, selected_language)
       IN  /\ language_accepted' = upd.language_accepted
           /\ language_rejection' = upd.language_rejection
           /\ pc' = route_language(upd.language_accepted)
    /\ visited' = Append(visited, "language_guard")
    /\ UNCHANGED <<human_input, selected_language, messages, tool_outputs,
                   llm_calls, next_call_id, mem_calls, last_llm, issued,
                   conv, local_conv, stored, ltm, response, clock, mem_outcome,
                   summary_call, locals>>
    /\ UNCHANGED fnVars

\* node load_context up to the first await that gives up control
\* (manager.py:51-67): the messages and the conversation record are read;
\* when a summary has to be generated the node waits for the summarizer
\* holding what it read, otherwise nothing is awaited and the node runs to
\* its end and the edge to agent is taken
LoadContext ==
    /\ pc = "load_context"
    /\ LET history == build_message_history(stored, conv, [ok |-> FALSE])
       IN  IF history.summarized
           THEN /\ pc' = "summarize_messages"
                /\ locals' = [t |-> "build_message_history",
                              items |-> stored, conv |-> conv]
                /\ UNCHANGED <<messages, conv, summary_call, visited>>
           ELSE /\ messages' = load_context(history, human_input,
                                            selected_language, ltm)
                /\ conv' = history.conv
                /\ summary_call' = "none"
                /\ visited' = Append(visited, "load_context")
                /\ pc' = "agent"
                /\ UNCHANGED locals
    /\ UNCHANGED <<human_input, selected_language, language_accepted,
                   language_rejection, tool_outputs, llm_calls, next_call_id,
                   mem_calls, last_llm, issued, local_conv, stored, ltm, response,
                   clock, mem_outcome>>
    /\ UNCHANGED fnVars

\* the summarizer answers the await of build_message_history
\* (manager.py:67-71): the summary of the messages read before the await is
\* written to the conversation record as it is now, when a record was read
\* before the await; then load_context reads the facts and composes the
\* messages from what build_message_history returns (graph.py:102-120), and
\* the edge to agent is taken
SummarizeMessages ==
    /\ pc = "summarize_messages"
    /\ \E reply \in TextModelReplies :
          LET history == build_message_history(locals.items, locals.conv, reply)
          IN  /\ messages' = load_context(history, human_input,
                                          selected_language, ltm)
              /\ conv' = IF locals.conv # None /\ conv # None
                         THEN update_conversation(conv,
                                                  [summary |-> history.summary])
                         ELSE conv
              /\ summary_call' = IF ~reply.ok THEN "failed"
                                 ELSE IF Truthy(reply.text) THEN "summary"
                                 ELSE "empty"
    /\ locals' = None
    /\ visited' = Append(visited, "load_context")
    /\ pc' = "agent"
    /\ UNCHANGED <<human_input, selected_language, language_accepted,
                   language_rejection, tool_outputs, llm_calls, next_call_id,
                   mem_calls, last_llm, issued, local_conv, stored, ltm, response,
                   clock, mem_outcome>>
    /\ UNCHANGED fnVars

\* node agent, then route_agent
Agent ==
    /\ pc = "agent"
    /\ \E reply \in {LlmFailure} \cup
                    ModelReplies(MaxToolCalls - Len(issued), next_call_id) :
          /\ messages' = agent(messages, human_input, selected_language, reply)
          /\ last_llm' = IF reply = LlmFailure THEN "failed" ELSE "ok"
          /\ issued' = issued \o (IF reply = LlmFailure THEN <<>> ELSE reply.tool_calls)
          /\ next_call_id' = next_call_id +
                (IF reply = LlmFailure THEN 0 ELSE Len(reply.tool_calls))
    /\ llm_calls' = llm_calls + 1
    /\ visited' = Append(visited, "agent")
    /\ pc' = route_agent(messages')
    /\ UNCHANGED <<human_input, selected_language, language_accepted,
                   language_rejection, tool_outputs, mem_calls,
                   conv, local_conv, stored, ltm, response, clock, mem_outcome,
                   summary_call, locals>>
    /\ UNCHANGED fnVars

\* node tool_executor, then the edge back to agent; an exception leaving
\* the node ends graph.ainvoke
ToolExecutor ==
    /\ pc = "tool_executor"
    /\ LET out == tool_executor(messages, tool_outputs)
       IN  /\ messages' = out.messages
           /\ tool_outputs' = out.tool_outputs
           /\ pc' = IF out.raised THEN "raised" ELSE "agent"
    /\ visited' = Append(visited, "tool_executor")
    /\ UNCHANGED <<human_input, selected_language, language_accepted,
                   language_rejection, llm_calls, next_call_id, mem_calls,
                   last_llm, issued, conv, local_conv, stored, ltm, response,
                   clock, mem_outcome,
                   summary_call, locals>>
    /\ UNCHANGED fnVars

\* node memory_update up to the await of the extraction model
\* (graph.py:218-230, manager.py:129-143): without an AI text the node ends
\* at once, and so it does when the lookup of the facts raises; otherwise
\* the facts are read and the node waits for the model holding them
MemoryUpdate ==
    /\ pc = "memory_update"
    /\ \E lookup \in {"ok", "get_raises"} :
          LET out == memory_update(messages, ltm, [ok |-> FALSE], lookup)
          IN  IF Truthy(LastAiText(messages)) /\ lookup = "ok"
              THEN /\ pc' = "extract_and_update_long_term_memory"
                   /\ locals' = [t |-> "extract_and_update_long_term_memory",
                                 existing |-> ltm]
                   /\ UNCHANGED <<mem_outcome, visited>>
              ELSE /\ pc' = IF out.raised THEN "raised" ELSE "END"
                   /\ mem_outcome' = out.outcome
                   /\ visited' = Append(visited, "memory_update")
                   /\ UNCHANGED locals
    /\ mem_calls' = mem_calls + (IF Truthy(LastAiText(messages)) THEN 1 ELSE 0)
    /\ UNCHANGED <<human_input, selected_language, language_accepted,
                   language_rejection, messages, tool_outputs, llm_calls,
                   next_call_id, last_llm, issued, conv, local_conv, stored,
                   ltm, response, clock, summary_call>>
    /\ UNCHANGED fnVars

\* the extraction model answers (manager.py:143-145, graph.py:234-236): a
\* non-blank list is written over whatever the store holds by now, built
\* from the facts read before the await; then the edge to END is taken
ExtractAndUpdate ==
    /\ pc = "extract_and_update_long_term_memory"
    /\ \E reply \in FactReplies(ExistingFacts(locals.existing)),
          store \in {"ok", "put_raises"} :
          LET out == memory_update(messages, locals.existing, reply, store)
          IN  /\ ltm' = IF out.put THEN out.facts ELSE ltm
              /\ mem_outcome' = out.outcome
              /\ pc' = IF out.raised THEN "raised" ELSE "END"
    /\ locals' = None
    /\ visited' = Append(visited, "memory_update")
    /\ UNCHANGED <<human_input, selected_language, language_accepted,
                   language_rejection, messages, tool_outputs, llm_calls,
                   next_call_id, mem_calls, last_llm, issued, conv, local_conv,
                   stored, response, clock, summary_call>>
    /\ UNCHANGED fnVars

\* what send_message answers with after a final answer (messages.py:88-103,
\* 128-136)
FinalAnswer(msgs) ==
    LET found == LastAiText(msgs)
    IN  [success |-> TRUE,
         content |-> IF Truthy(found) THEN found ELSE CouldNotGenerate,
         toolCalls |-> ToolCallsMeta(msgs)]

\* send_message after graph.ainvoke, up to the await of the summarizer
\* (messages.py:63-124, manager.py:76-82); the clock may have passed into
\* the next second since the user's message was saved.  After a final
\* answer that leaves more than W messages stored, maybe_update_summary
\* reads the messages and waits for the summarizer; in every other case
\* nothing is awaited and the response is returned
Finish ==
    /\ pc \in {"END", "raised"}
    /\ \E tick \in {0, 1}, sfx \in Suffixes :
        LET now_iso == Timestamp(clock + tick, sfx)
        IN
        /\ clock' = clock + tick
        /\ IF pc = "raised"
           THEN \* except Exception (messages.py:65-73)
                /\ stored' = save_message(stored, "assistant", GraphErrorText,
                                          <<>>, now_iso)
                /\ response' = [success |-> FALSE, content |-> GraphErrorText]
                /\ pc' = "done"
                /\ UNCHANGED <<conv, locals>>
           ELSE IF language_accepted # "True"
           THEN \* the rejection branch (messages.py:76-86)
                LET rejection == IF language_rejection.t = "unset"
                                 THEN DefaultRejection ELSE language_rejection
                IN  /\ stored' = save_message(stored, "assistant", rejection,
                                              <<>>, now_iso)
                    /\ response' = [success |-> TRUE, content |-> rejection,
                                    language_rejected |-> TRUE]
                    /\ pc' = "done"
                    /\ UNCHANGED <<conv, locals>>
           ELSE \* the final answer (messages.py:88-136)
                LET answer == FinalAnswer(messages)
                    log == save_message(stored, "assistant", answer.content,
                                        answer.toolCalls, now_iso)
                    title == IF local_conv.title = NewChatTitle /\ Truthy(human_input)
                             THEN AutoTitle(human_input.cps) ELSE local_conv.title
                IN  /\ stored' = log
                    /\ conv' = update_conversation(conv,
                                  [messageCount |-> local_conv.messageCount + 2,
                                   title |-> title])
                    /\ IF count_messages(log) > SHORT_TERM_MESSAGE_LIMIT
                       THEN /\ pc' = "maybe_update_summary"
                            /\ locals' = [t |-> "maybe_update_summary",
                                          items |-> log]
                            /\ UNCHANGED response
                       ELSE /\ pc' = "done"
                            /\ response' = answer
                            /\ UNCHANGED locals
    /\ UNCHANGED <<human_input, selected_language, language_accepted,
                   language_rejection, messages, tool_outputs, visited,
                   llm_calls, next_call_id, mem_calls, last_llm, issued,
                   local_conv, ltm, mem_outcome, summary_call>>
    /\ UNCHANGED fnVars

\* the summarizer answers the await of maybe_update_summary
\* (manager.py:82-83): the summary of the messages read before the await is
\* written to the conversation record as it is now, and send_message
\* returns its response (messages.py:128-136)
MaybeUpdateSummary ==
    /\ pc = "maybe_update_summary"
    /\ \E reply \in TextModelReplies :
          conv' = maybe_update_summary(locals.items, conv, reply)
    /\ response' = FinalAnswer(messages)
    /\ locals' = None
    /\ pc' = "done"
    /\ UNCHANGED <<human_input, selected_language, language_accepted,
                   language_rejection, messages, tool_outputs, visited,
                   llm_calls, next_call_id, mem_calls, last_llm, issued,
                   local_conv, stored, ltm, clock, mem_outcome, summary_call>>
    /\ UNCHANGED fnVars

Next ==
    \/ SendMessage
    \/ LanguageGuard
    \/ LoadContext
    \/ SummarizeMessages
    \/ Agent
    \/ ToolExecutor
    \/ MemoryUpdate
    \/ ExtractAndUpdate
    \/ Finish
    \/ MaybeUpdateSummary

Spec == Init /\ [][Next]_vars

--------------------------------------------------------------------------
(***************************************************************************)
(* save_message, build_message_history and maybe_update_summary called on  *)
(* their own on a conversation.                                            *)
(***************************************************************************)

\* the replies of the summarizer: a text, an empty text, or an exception
SummarizerReplies == TextModelReplies

\* the summaries a conversation of n messages may have cached: none while
\* it never held more than W messages; else none, a summary of its first
\* message, or the fallback text
CachedSummaries(n) ==
    IF n <= SHORT_TERM_MESSAGE_LIMIT THEN {EmptyText}
    ELSE {EmptyText,
          [t |-> "summary", of |-> Transcript(SubSeq(PastMessages(n), 1, 1))],
          SummaryUnavailable}

\* the numbers of messages stored when the store functions are first
\* called: up to MaxStored, and as many as get_messages fetches at most
\* (manager.py:51, 80: limit=500) or more
StoredSizes ==
    (0..MaxStored)
    \cup (HISTORY_FETCH_LIMIT..(HISTORY_FETCH_LIMIT + MaxOverCap))

\* a conversation that holds n messages, saved one a second
StoreInit ==
    /\ \E n \in StoredSizes :
          /\ stored = SubSeq(PastMessages(n), 1, n)
          /\ clock = n
          /\ \E cached \in CachedSummaries(n) :
                conv = update_conversation(
                          PastConversation("en", n \div 2), [summary |-> cached])
    /\ text = <<>>
    /\ lang = "en"
    /\ result = [t |-> "store", calls |-> <<>>]
    /\ fpc = "input"
    /\ human_input = InputText(<<>>)
    /\ selected_language = "en"
    /\ language_accepted = "unset"
    /\ language_rejection = [t |-> "unset"]
    /\ messages = <<>>
    /\ tool_outputs = <<>>
    /\ pc = "idle"
    /\ visited = <<>>
    /\ llm_calls = 0
    /\ next_call_id = 1
    /\ mem_calls = 0
    /\ last_llm = "none"
    /\ issued = <<>>
    /\ local_conv = None
    /\ ltm = None
    /\ response = None
    /\ mem_outcome = "none"
    /\ summary_call = "none"
    /\ locals = None

\* one call of save_message, in the present second or the next one
StoreSave ==
    /\ Len(result.calls) < MaxOps
    /\ \E role \in {"user", "assistant"}, tick \in {0, 1}, sfx \in Suffixes :
          LET content == IF role = "user" THEN InputText(<<114, 97, 105, 110>>)
                         ELSE [t |-> "model_text"]
              after == save_message(stored, role, content, <<>>,
                                    Timestamp(clock + tick, sfx))
              now == Events(result.calls) + 1
          IN  /\ stored' = after
              /\ clock' = clock + tick
              /\ result' = [result EXCEPT !.calls = Append(@,
                                [op |-> "save_message", at |-> "done",
                                 began |-> now, ended |-> now,
                                 before |-> stored, after |-> after])]
    /\ fpc' = "done"
    /\ UNCHANGED <<text, lang, messages, tool_outputs, conv, ltm>>
    /\ UNCHANGED ctlVars

\* a call of build_message_history begins (manager.py:51-67): the messages
\* and the conversation record are read; with a cached summary, or with at
\* most W messages, nothing is awaited and the call is over; otherwise the
\* summarizer is awaited and other calls may begin or end meanwhile
StoreBuild ==
    /\ Len(result.calls) < MaxOps
    /\ LET history == build_message_history(stored, conv, [ok |-> FALSE])
           now == Events(result.calls) + 1
       IN  result' = [result EXCEPT !.calls = Append(@,
              [op |-> "build_message_history",
               at |-> IF history.summarized THEN "await" ELSE "done",
               began |-> now,
               ended |-> IF history.summarized THEN 0 ELSE now,
               items |-> stored, before |-> conv,
               reply |-> None, recent |-> history.recent,
               summary |-> IF history.summarized THEN None ELSE history.summary,
               summarized |-> history.summarized,
               after |-> conv])]
    /\ UNCHANGED <<text, lang, fpc, messages, tool_outputs, stored, conv, ltm,
                   clock>>
    /\ UNCHANGED ctlVars

\* the summarizer answers a waiting call of build_message_history
\* (manager.py:67-71): the summary of the messages the call read before it
\* waited is written to the conversation record as it is now, and returned
StoreBuildReturn ==
    /\ \E k \in InFlight(result.calls), reply \in SummarizerReplies :
          LET call == result.calls[k]
              history == build_message_history(call.items, call.before, reply)
              after == IF call.before # None
                       THEN update_conversation(conv,
                                                [summary |-> history.summary])
                       ELSE conv
          IN  /\ call.op = "build_message_history"
              /\ conv' = after
              /\ result' = [result EXCEPT !.calls[k] =
                     [call EXCEPT !.at = "done",
                                  !.ended = Events(result.calls) + 1,
                                  !.reply = reply,
                                  !.summary = history.summary,
                                  !.after = after]]
    /\ fpc' = "done"
    /\ UNCHANGED <<text, lang, messages, tool_outputs, stored, ltm, clock>>
    /\ UNCHANGED ctlVars

\* a call of maybe_update_summary begins (manager.py:76-82): the messages
\* are counted; with at most W of them the call is over; otherwise they are
\* read and the summarizer is awaited
StoreResummarize ==
    /\ Len(result.calls) < MaxOps
    /\ LET waits == count_messages(stored) > SHORT_TERM_MESSAGE_LIMIT
           now == Events(result.calls) + 1
       IN  result' = [result EXCEPT !.calls = Append(@,
              [op |-> "maybe_update_summary",
               at |-> IF waits THEN "await" ELSE "done",
               began |-> now, ended |-> IF waits THEN 0 ELSE now,
               items |-> stored, before |-> conv, reply |-> None,
               after |-> conv])]
    /\ UNCHANGED <<text, lang, fpc, messages, tool_outputs, stored, conv, ltm,
                   clock>>
    /\ UNCHANGED ctlVars

\* the summarizer answers a waiting call of maybe_update_summary
\* (manager.py:82-83): the summary of the messages the call read before it
\* waited is written to the conversation record as it is now
StoreResummarizeReturn ==
    /\ \E k \in InFlight(result.calls), reply \in SummarizerReplies :
          LET call == result.calls[k]
              after == maybe_update_summary(call.items, conv, reply)
          IN  /\ call.op = "maybe_update_summary"
              /\ conv' = after
              /\ result' = [result EXCEPT !.calls[k] =
                     [call EXCEPT !.at = "done",
                                  !.ended = Events(result.calls) + 1,
                                  !.reply = reply, !.after = after]]
    /\ fpc' = "done"
    /\ UNCHANGED <<text, lang, messages, tool_outputs, stored, ltm, clock>>
    /\ UNCHANGED ctlVars

StoreNext ==
    \/ StoreSave
    \/ StoreBuild
    \/ StoreBuildReturn
    \/ StoreResummarize
    \/ StoreResummarizeReturn

SpecStore == StoreInit /\ [][StoreNext]_vars

--------------------------------------------------------------------------
(***************************************************************************)
(* Turns sent one after the other on a conversation: what send_message     *)
(* and load_context do to the message log and to the summary, each turn's  *)
(* messages saved in seconds of their own.                                 *)
(***************************************************************************)

\* the user's text in a turn the guard accepts, and in one it rejects
AcceptedInput == InputText(<<114, 97, 105, 110>>)
RejectedInput == InputText(<<2965, 2965, 2965>>)

\* what a call of build_message_history saw and did: the messages it read,
\* the cached summary it read, the summary it returned, whether it called
\* the summarizer, and the summary on the conversation record when it
\* returned
Observed(items, c, history, after) ==
    [total |-> Len(get_messages(items, HISTORY_FETCH_LIMIT)),
     before |-> c.summary,
     summary |-> history.summary,
     summarized |-> history.summarized,
     after |-> after.summary]

\* the store accesses of a turn, in the order the turn makes them:
\*   save_user            messages.py:51
\*   load_history         graph.py:99 (build_message_history)
\*   load_facts           graph.py:102 (get_long_term_memory)
\*   memory_update        graph.py:229-235 (inside try/except)
\*   save_assistant       messages.py:68, 78, 105-110
\*   update_conversation  messages.py:120
\*   update_summary       messages.py:123-126 (inside try/except)
StoreAccesses ==
    <<"save_user", "load_history", "load_facts", "memory_update",
      "save_assistant", "update_conversation", "update_summary">>

AccessIndex(access) ==
    CHOOSE i \in DOMAIN StoreAccesses : StoreAccesses[i] = access

\* a store that is reachable at every access
NoFailure == [at |-> "none", lasting |-> FALSE]

\* the failures of the store during a request: none, or the store is
\* unreachable at one access, and either reachable again afterwards or
\* unreachable from then on
StoreFailures ==
    {NoFailure}
    \cup {[at |-> StoreAccesses[i], lasting |-> l] :
              i \in DOMAIN StoreAccesses, l \in BOOLEAN}

\* the store raises at this access
Unreachable(fail, access) ==
    /\ fail.at # "none"
    /\ \/ access = fail.at
       \/ fail.lasting /\ AccessIndex(access) > AccessIndex(fail.at)

\* the requests that may be in flight at the same time
Slots == 1..MaxInFlight

\* a slot in which no request has run: where the request stands (at), the
\* caller, the body and the model's answer, the store failure it meets, the
\* owner of the conversation as read at the start, send_message's local
\* conv, the messages and the record read before an await, the message list
\* of the graph state, the facts read before the await of the extraction,
\* and the outcome: the accesses at which the store raised, whether an
\* exception left send_message, the success flag of the response ("none"
\* without a response), the HTTP status, and whether graph.ainvoke was
\* reached
IdleRequest ==
    [at |-> "idle", user |-> User, input |-> None, content |-> None,
     fail |-> NoFailure, owner |-> None, local |-> None, items |-> None,
     read |-> None, messages |-> None, existing |-> None, hit |-> {},
     propagated |-> FALSE, success |-> "none", status |-> 0,
     invoked |-> FALSE]

\* send_message answering whatever the owner of the conversation
send_message_status_any_owner(c, user) ==
    IF c = None THEN 404 ELSE 200

\* the status send_message settles at its start (messages.py:42-46): 404
\* without a conversation record, 403 on a record of another user, and
\* otherwise 200, the request going on
send_message_status(c, user) ==
    IF c = None THEN 404
    ELSE IF c.userId # user THEN 403
    ELSE 200

\* the request is over: its arguments and its locals are gone
Over(req) ==
    [req EXCEPT !.at = "done", !.input = None, !.content = None,
                !.fail = NoFailure, !.local = None, !.items = None,
                !.read = None, !.messages = None, !.existing = None]

\* the guard's answer to the request's text (graph.py: language_guard on
\* body.language or the language of the conversation)
GuardOf(req) == language_guard(req.input, req.local.language)

\* what the steps of a request leave alone: the variables of the other
\* developments
RequestFrame ==
    /\ UNCHANGED <<text, lang, fpc, messages, tool_outputs>>
    /\ UNCHANGED ctlVars

\* send_message up to graph.ainvoke (messages.py:42-64), in the lowest free
\* slot: the conversation record is read and the request refused on a
\* missing or foreign record; otherwise the user's message is saved and the
\* graph is awaited
Send(s, user, input, content, fail) ==
    /\ result.reqs[s].at \in {"idle", "done"}
    /\ \A i \in 1..(s - 1) : result.reqs[i].at \notin {"idle", "done"}
    /\ LET status == send_message_status(conv, user)
           req == [IdleRequest EXCEPT
                      !.user = user, !.input = input, !.content = content,
                      !.fail = fail, !.status = status,
                      !.owner = IF conv = None THEN "nobody" ELSE conv.userId]
       IN  IF status # 200
           THEN /\ result' = [result EXCEPT !.sent = @ + 1,
                                             !.reqs[s] = Over(req)]
                /\ UNCHANGED <<stored, conv, clock>>
           ELSE IF Unreachable(fail, "save_user")
           THEN /\ result' = [result EXCEPT !.sent = @ + 1,
                      !.reqs[s] = Over([req EXCEPT !.status = 500,
                                                   !.hit = {"save_user"},
                                                   !.propagated = TRUE])]
                /\ UNCHANGED <<stored, conv, clock>>
           ELSE /\ stored' = save_message(stored, "user", input, <<>>,
                                          Timestamp(clock, "000"))
                /\ clock' = clock + 1
                /\ result' = [result EXCEPT !.sent = @ + 1,
                      !.reqs[s] = [req EXCEPT !.at = "graph", !.local = conv,
                                              !.invoked = TRUE]]
                /\ UNCHANGED conv
    /\ UNCHANGED ltm
    /\ RequestFrame

\* load_context after build_message_history has returned (graph.py:102-120):
\* the facts of the user are read, the store raising there ending
\* graph.ainvoke; otherwise the message list is composed from the system
\* prompt, the window and the user's text, and the model is awaited
LoadedFacts(req, history) ==
    IF Unreachable(req.fail, "load_facts")
    THEN [req EXCEPT !.at = "raised", !.hit = @ \cup {"load_facts"},
                     !.items = None, !.read = None]
    ELSE [req EXCEPT !.at = "answer", !.items = None, !.read = None,
                     !.messages = load_context(history, req.input,
                                               req.local.language, ltm)]

\* node load_context of an accepted request, up to the first await that
\* gives up control (graph.py:99, manager.py:51-67): the messages and the
\* conversation record are read; when a summary has to be generated the
\* request waits for the summarizer holding what it read, otherwise
\* build_message_history returns and the facts are read
TurnLoad(s) ==
    /\ result.reqs[s].at = "graph"
    /\ GuardOf(result.reqs[s]).language_accepted = "True"
    /\ LET req == result.reqs[s]
           history == build_message_history(stored, conv, [ok |-> FALSE])
       IN  result' =
              IF Unreachable(req.fail, "load_history")
              THEN [result EXCEPT !.reqs[s] =
                       [req EXCEPT !.at = "raised",
                                   !.hit = @ \cup {"load_history"}]]
              ELSE IF history.summarized
              THEN [result EXCEPT !.reqs[s] =
                       [req EXCEPT !.at = "load_write", !.items = stored,
                                   !.read = conv]]
              ELSE [result EXCEPT !.reqs[s] = LoadedFacts(req, history),
                       !.build = Observed(stored, conv, history, conv)]
    /\ UNCHANGED <<stored, conv, clock, ltm>>
    /\ RequestFrame

\* the summarizer answers the await of build_message_history
\* (manager.py:67-71): the summary of the messages read before the await is
\* written to the conversation record as it is now; then the facts are read
TurnLoadWrite(s) ==
    /\ result.reqs[s].at = "load_write"
    /\ \E reply \in SummarizerReplies :
          LET req == result.reqs[s]
              history == build_message_history(req.items, req.read, reply)
              after == update_conversation(conv, [summary |-> history.summary])
          IN  /\ conv' = after
              /\ result' = [result EXCEPT
                       !.reqs[s] = LoadedFacts(req, history),
                       !.build = Observed(req.items, req.read, history, after)]
    /\ UNCHANGED <<stored, clock, ltm>>
    /\ RequestFrame

\* the chat model answers the await of agent (graph.py:171-177): its message
\* is appended and, without tool calls, the edge to memory_update is taken.
\* memory_update (graph.py:218-238) looks for the last AI message with
\* content among the messages, those of the window included; without one
\* it returns, otherwise the extraction reads the user's facts
\* (manager.py:129), the store raising there caught by the node, and
\* awaits the extraction model
TurnMemory(s) ==
    /\ result.reqs[s].at = "answer"
    /\ LET req == result.reqs[s]
           msgs == agent(req.messages, req.input, req.local.language,
                         AIMessage(req.content, <<>>))
           answered == [req EXCEPT !.at = "finish", !.messages = msgs]
       IN  result' = [result EXCEPT !.reqs[s] =
              IF ~Truthy(LastAiText(msgs)) THEN answered
              ELSE IF Unreachable(req.fail, "memory_update")
              THEN [answered EXCEPT !.hit = @ \cup {"memory_update"}]
              ELSE [answered EXCEPT !.at = "memory_write",
                                    !.existing = ExistingFacts(ltm)]]
    /\ UNCHANGED <<stored, conv, clock, ltm>>
    /\ RequestFrame

\* what the extraction model answers in these runs: the facts it was given
\* with new ones merged in, or nothing after a failed call
TurnFactReplies(existing) ==
    {[ok |-> TRUE, text |-> Merged(existing)], [ok |-> FALSE]}

\* the extraction model answers the await of
\* extract_and_update_long_term_memory (manager.py:143-145): what it made of
\* the facts read before the await is written as the user's facts, and
\* graph.ainvoke returns
TurnMemoryWrite(s) ==
    /\ result.reqs[s].at = "memory_write"
    /\ \E reply \in TurnFactReplies(result.reqs[s].existing) :
          LET out == extract_and_update_long_term_memory(
                         result.reqs[s].existing, reply, "ok")
          IN  ltm' = IF out.put THEN out.facts ELSE ltm
    /\ result' = [result EXCEPT !.reqs[s].at = "finish",
                                !.reqs[s].existing = None]
    /\ UNCHANGED <<stored, conv, clock>>
    /\ RequestFrame

\* send_message after graph.ainvoke, up to the await of the summarizer
\* (messages.py:65-124, manager.py:76-82).  After an exception of the graph
\* the error text is saved; after a rejection, the rejection text; after a
\* return of the graph the content of the last AI message with content and
\* no tool calls among the returned messages, those of the window
\* included, or the fallback text without one (messages.py:89-103), with
\* the tool calls of the returned messages; then messageCount and title
\* are written from the record read at the start, and
\* maybe_update_summary, when more than W messages are stored, reads them
\* and waits for the summarizer.  A store that raises at a save or at
\* update_conversation ends the request with the exception.
TurnFinish(s) ==
    /\ result.reqs[s].at \in {"graph", "finish", "raised"}
    /\ result.reqs[s].at = "graph" =>
          GuardOf(result.reqs[s]).language_accepted # "True"
    /\ LET req == result.reqs[s]
           now_iso == Timestamp(clock, "000")
           found == IF req.at = "finish" THEN LastAiText(req.messages)
                    ELSE EmptyText
           content == IF req.at = "raised" THEN GraphErrorText
                      ELSE IF req.at = "graph"
                      THEN GuardOf(req).language_rejection
                      ELSE IF Truthy(found) THEN found
                      ELSE CouldNotGenerate
           tool_calls_meta == IF req.at = "finish"
                              THEN ToolCallsMeta(req.messages) ELSE <<>>
           log == save_message(stored, "assistant", content, tool_calls_meta,
                               now_iso)
           title == IF req.local.title = NewChatTitle /\ Truthy(req.input)
                    THEN AutoTitle(req.input.cps) ELSE req.local.title
           raises(access) == Over([req EXCEPT !.status = 500,
                                              !.propagated = TRUE,
                                              !.hit = @ \cup {access}])
           answers(success) == Over([req EXCEPT !.success = success])
       IN  IF Unreachable(req.fail, "save_assistant")
           THEN /\ result' = [result EXCEPT !.reqs[s] = raises("save_assistant")]
                /\ UNCHANGED <<stored, conv, clock>>
           ELSE /\ stored' = log
                /\ clock' = clock + 1
                /\ IF req.at = "raised"
                   THEN /\ result' = [result EXCEPT !.reqs[s] = answers("False")]
                        /\ UNCHANGED conv
                   ELSE IF req.at = "graph"
                   THEN /\ result' = [result EXCEPT !.reqs[s] = answers("True")]
                        /\ UNCHANGED conv
                   ELSE IF Unreachable(req.fail, "update_conversation")
                   THEN /\ result' = [result EXCEPT
                              !.reqs[s] = raises("update_conversation")]
                        /\ UNCHANGED conv
                   ELSE /\ conv' = update_conversation(conv,
                              [messageCount |-> req.local.messageCount + 2,
                               title |-> title])
                        /\ result' = [result EXCEPT !.reqs[s] =
                              IF Unreachable(req.fail, "update_summary")
                              THEN [answers("True") EXCEPT
                                       !.hit = @ \cup {"update_summary"}]
                              ELSE IF count_messages(log) > SHORT_TERM_MESSAGE_LIMIT
                              THEN [req EXCEPT !.at = "summary_write",
                                               !.items = log,
                                               !.messages = None]
                              ELSE answers("True")]
    /\ UNCHANGED ltm
    /\ RequestFrame

\* the summarizer answers the await of maybe_update_summary
\* (manager.py:82-83): the summary of the messages read before the await is
\* written to the conversation record as it is now, and send_message
\* returns its response (messages.py:128-136)
TurnSummaryWrite(s) ==
    /\ result.reqs[s].at = "summary_write"
    /\ \E reply \in SummarizerReplies :
          conv' = maybe_update_summary(result.reqs[s].items, conv, reply)
    /\ result' = [result EXCEPT !.reqs[s] =
                     Over([result.reqs[s] EXCEPT !.success = "True"])]
    /\ UNCHANGED <<stored, clock, ltm>>
    /\ RequestFrame

\* no request has been sent
NoRequests ==
    [t |-> "send_message", reqs |-> [s \in Slots |-> IdleRequest],
     sent |-> 0, build |-> None]

\* the turns already answered when the run starts: none, as many as fill
\* the short-term window, or one more; then the last call of
\* maybe_update_summary has summarized the two oldest messages
ConvPastTurns == {0, SHORT_TERM_MESSAGE_LIMIT \div 2 + 1}

\* the turns the guard rejected after the answered ones, when there are any
RejectedPastTurns == SHORT_TERM_MESSAGE_LIMIT \div 2 - 1

\* the messages of a conversation on which accepted turns were answered and
\* then rejected turns were refused, one message a second
ConvPastMessages(accepted, rejected) ==
    PastMessages(accepted) \o
    [k \in 1..(2 * rejected) |->
        IF k % 2 = 1
        THEN [role |-> "user", content |-> RejectedInput,
              timestamp |-> Timestamp(2 * accepted + k - 1, "000")]
        ELSE [role |-> "assistant",
              content |-> language_guard(RejectedInput, "en").language_rejection,
              timestamp |-> Timestamp(2 * accepted + k - 1, "000")]]

\* ... and its conversation record: maybe_update_summary ran at the end of
\* each answered turn, and the rejected turns left the record alone
ConvPastConversation(accepted) ==
    maybe_update_summary(PastMessages(accepted),
                         PastConversation("en", accepted),
                         [ok |-> TRUE, text |-> [t |-> "model_text"]])

\* the conversations a run starts on
ConvPasts ==
    {<<accepted, 0>> : accepted \in PastTurns \cup ConvPastTurns}
    \cup {<<SHORT_TERM_MESSAGE_LIMIT \div 2 + 1, RejectedPastTurns>>}

\* the ways a turn of this run goes wrong inside the graph: not at all, or
\* graph.ainvoke raises before load_context has built the context, or
\* after it
ConvFailures ==
    {NoFailure, [at |-> "load_history", lasting |-> FALSE],
     [at |-> "load_facts", lasting |-> FALSE]}

ConvInit ==
    /\ \E past \in ConvPasts :
          /\ stored = ConvPastMessages(past[1], past[2])
          /\ clock = 2 * (past[1] + past[2])
          /\ conv = ConvPastConversation(past[1])
    /\ text = <<>>
    /\ lang = "en"
    /\ result = NoRequests
    /\ fpc = "input"
    /\ human_input = InputText(<<>>)
    /\ selected_language = "en"
    /\ language_accepted = "unset"
    /\ language_rejection = [t |-> "unset"]
    /\ messages = <<>>
    /\ tool_outputs = <<>>
    /\ pc = "idle"
    /\ visited = <<>>
    /\ llm_calls = 0
    /\ next_call_id = 1
    /\ mem_calls = 0
    /\ last_llm = "none"
    /\ issued = <<>>
    /\ local_conv = None
    /\ ltm = None
    /\ response = None
    /\ mem_outcome = "none"
    /\ summary_call = "none"
    /\ locals = None

\* the owner sends a message the guard accepts or one it rejects, on a turn
\* that goes through or in which the graph raises
ConvSend ==
    /\ result.sent < MaxTurns
    /\ \E s \in Slots, input \in {AcceptedInput, RejectedInput},
          fail \in ConvFailures :
          /\ input = RejectedInput => fail = NoFailure
          /\ Send(s, User, input, [t |-> "model_text"], fail)

ConvNext ==
    \/ ConvSend
    \/ \E s \in Slots : TurnLoad(s)
    \/ \E s \in Slots : TurnLoadWrite(s)
    \/ \E s \in Slots : TurnMemory(s)
    \/ \E s \in Slots : TurnMemoryWrite(s)
    \/ \E s \in Slots : TurnFinish(s)
    \/ \E s \in Slots : TurnSummaryWrite(s)

SpecConv == ConvInit /\ [][ConvNext]_vars

--------------------------------------------------------------------------
(***************************************************************************)
(* What send_message and send_chat answer for a result of graph.ainvoke.   *)
(***************************************************************************)

\* an AIMessage content that is a list of blocks: strings, text blocks
\* {"type": "text", "text": ...} and blocks of other types
Blocks(blocks) == [t |-> "blocks", blocks |-> blocks]
StrBlock(txt) == [b |-> "str", text |-> txt]
TextBlock(txt) == [b |-> "text", text |-> txt]
OtherBlock == [b |-> "other"]

\* "\n".join(parts)
Join(parts) ==
    IF parts = <<>> THEN EmptyText
    ELSE IF Len(parts) = 1 THEN parts[1]
    ELSE [t |-> "joined", parts |-> parts]

\* _extract_text(content)
extract_text(content) ==
    IF content.t = "blocks"
    THEN LET texts == SelectSeq(content.blocks, LAMBDA b : b.b \in {"str", "text"})
         IN  Join([i \in DOMAIN texts |-> texts[i].text])
    ELSE content

\* "I'm sorry, I encountered an error. Please try again. (...)"
ChatErrorText == [t |-> "chat_error"]

\* send_message from the return of graph.ainvoke on: the text saved as the
\* assistant's message and the response (messages.py:64-136)
send_message_reply(graph) ==
    IF graph.raised
    THEN [success |-> FALSE, content |-> GraphErrorText, saved |-> GraphErrorText]
    ELSE IF graph.language_accepted # "True"
    THEN [success |-> TRUE, content |-> graph.language_rejection,
          saved |-> graph.language_rejection]
    ELSE LET found == LastAiText(graph.messages)
             ai_content == IF Truthy(found) THEN found ELSE CouldNotGenerate
         IN  [success |-> TRUE, content |-> ai_content, saved |-> ai_content]

\* send_chat from the return of graph.ainvoke on (compat.py:89-138)
send_chat_reply(graph) ==
    IF graph.raised
    THEN [content |-> ChatErrorText, saved |-> ChatErrorText]
    ELSE IF graph.language_accepted # "True"
    THEN [content |-> graph.language_rejection,
          saved |-> graph.language_rejection]
    ELSE LET found == extract_text(LastAiText(graph.messages))
             ai_content == IF Truthy(found) THEN found ELSE CouldNotGenerate
         IN  [content |-> ai_content, saved |-> ai_content]

\* the contents of the model's messages: a text, nothing, or lists of blocks
AnswerContents ==
    {[t |-> "model_text"], EmptyText,
     Blocks(<<>>),
     Blocks(<<TextBlock([t |-> "model_text"])>>),
     Blocks(<<TextBlock(EmptyText)>>),
     Blocks(<<StrBlock([t |-> "model_text"]), StrBlock([t |-> "model_text"])>>),
     Blocks(<<OtherBlock>>)}

\* what graph.ainvoke returns or does: it raises, the guard has rejected,
\* or the model has answered, directly or after a round of tools
GraphOutcomes ==
    {[raised |-> TRUE]}
    \cup
    {[raised |-> FALSE,
      language_accepted |-> language_guard(RejectedInput, l).language_accepted,
      language_rejection |-> language_guard(RejectedInput, l).language_rejection,
      messages |-> <<>>] : l \in {"en", "hi"}}
    \cup
    {[raised |-> FALSE, language_accepted |-> "True", language_rejection |-> None,
      messages |-> <<HumanMessage(AcceptedInput), AIMessage(c, <<>>)>>] :
        c \in AnswerContents}
    \cup
    {[raised |-> FALSE, language_accepted |-> "True", language_rejection |-> None,
      messages |-> <<HumanMessage(AcceptedInput),
                     AIMessage(c1, <<[name |-> "get_weather", args |-> "coords",
                                      id |-> 1]>>),
                     ToolMessage(ToolReturn("get_weather", "coords"), 1),
                     AIMessage(c2, <<>>)>>] :
        c1 \in AnswerContents, c2 \in AnswerContents}

\* the title send_chat gives the conversation it creates (compat.py:61)
ChatTitle == [t |-> "title", cps |-> <<67, 104, 97, 116>>]

\* the user's text of the turn that ended with this outcome
AnswerInput(graph) ==
    IF ~graph.raised /\ graph.language_accepted # "True"
    THEN RejectedInput ELSE AcceptedInput

\* the route has saved the user's message on a conversation just created
\* (messages.py:42-51, compat.py:72-76) and graph.ainvoke is over
AnswerInit ==
    /\ \E route \in {"send_message", "send_chat"}, graph \in GraphOutcomes :
          /\ result = [t |-> "reply", route |-> route, graph |-> graph,
                       reply |-> None]
          /\ conv = create_conversation(User,
                        IF route = "send_message" THEN NewChatTitle
                        ELSE ChatTitle, "en")
          /\ stored = save_message(<<>>, "user", AnswerInput(graph), <<>>,
                                   Timestamp(0, "000"))
    /\ text = <<>>
    /\ lang = "en"
    /\ fpc = "input"
    /\ human_input = InputText(<<>>)
    /\ selected_language = "en"
    /\ language_accepted = "unset"
    /\ language_rejection = [t |-> "unset"]
    /\ messages = <<>>
    /\ tool_outputs = <<>>
    /\ pc = "idle"
    /\ visited = <<>>
    /\ llm_calls = 0
    /\ next_call_id = 1
    /\ mem_calls = 0
    /\ last_llm = "none"
    /\ issued = <<>>
    /\ local_conv = None
    /\ ltm = None
    /\ response = None
    /\ clock = 1
    /\ mem_outcome = "none"
    /\ summary_call = "none"
    /\ locals = None

\* the route from the return of graph.ainvoke on (messages.py:65-136,
\* compat.py:91-138): the text is saved as the assistant's message, with
\* the tool calls on send_message; after an answer messageCount and title
\* are written, and maybe_update_summary, which finds two messages, returns
\* without awaiting anything
AnswerReply ==
    /\ fpc = "input"
    /\ LET graph == result.graph
           chat == result.route = "send_chat"
           reply == IF chat THEN send_chat_reply(graph)
                    ELSE send_message_reply(graph)
           answered == ~graph.raised /\ graph.language_accepted = "True"
           meta == IF answered /\ ~chat THEN ToolCallsMeta(graph.messages)
                   ELSE <<>>
           log == save_message(stored, "assistant", reply.saved, meta,
                               Timestamp(clock, "000"))
           input == AnswerInput(graph)
           defaults == IF chat THEN {ChatTitle, NewChatTitle}
                       ELSE {NewChatTitle}
           title == IF conv.title \in defaults /\ Truthy(input)
                    THEN AutoTitle(input.cps) ELSE conv.title
       IN  /\ result' = [result EXCEPT !.reply = reply]
           /\ stored' = log
           /\ clock' = clock + 1
           /\ conv' = IF answered
                      THEN maybe_update_summary(log,
                              update_conversation(conv,
                                 [messageCount |-> conv.messageCount + 2,
                                  title |-> title]),
                              [ok |-> FALSE])
                      ELSE conv
    /\ fpc' = "done"
    /\ UNCHANGED <<text, lang, messages, tool_outputs, ltm>>
    /\ UNCHANGED ctlVars

AnswerNext == AnswerReply

SpecAnswer == AnswerInit /\ [][AnswerNext]_vars

--------------------------------------------------------------------------
(***************************************************************************)
(* The tables of several users and conversations: update_long_term_memory *)
(* and delete_conversation called on their own.                            *)
(***************************************************************************)

\* MockTable.get_item: the first item of the table that has the key
get_item(items, field, value) ==
    LET hits == {i \in DOMAIN items : items[i][field] = value}
    IN  IF hits = {} THEN None
        ELSE items[CHOOSE i \in hits : \A j \in hits : i <= j]

\* MockTable.delete_item: every item that has the key leaves the table
delete_item(items, key) ==
    SelectSeq(items, LAMBDA i : \E f \in DOMAIN key : i[f] # key[f])

\* MockTable.put_item on a table whose key is the fields key_fields
put_keyed_item(items, item, key_fields) ==
    Append(SelectSeq(items, LAMBDA i : \E f \in key_fields : i[f] # item[f]), item)

\* the items of the messages table that a query for conversation_id matches
ItemsOf(items, conversation_id) ==
    SelectSeq(items, LAMBDA i : i.conversationId = conversation_id)

\* get_conversation(conversation_id)
get_conversation(conversations, conversation_id) ==
    get_item(conversations, "conversationId", conversation_id)

\* get_long_term_memory(user_id)
get_long_term_memory(memory, user_id) ==
    LET item == get_item(memory, "userId", user_id)
    IN  IF item = None THEN None ELSE item.facts

\* update_long_term_memory adding a record without replacing the user's
update_long_term_memory_added(memory, user_id, facts, now) ==
    Append(memory, [userId |-> user_id, facts |-> facts, updatedAt |-> now])

\* update_long_term_memory(user_id, facts): the memory table afterwards
update_long_term_memory(memory, user_id, facts, now) ==
    put_keyed_item(memory,
        [userId |-> user_id, facts |-> facts, updatedAt |-> now], {"userId"})

\* the table implementations: the in-memory tables of demo mode and DynamoDB
\* (utils/dynamodb.py:9-14)
Backends == {"mock", "dynamodb"}

\* the most a Query of DynamoDB reads for one answer, in KB (1 MB), and the
\* largest item a DynamoDB table stores, in KB
QUERY_PAGE_KB == 1024
MAX_ITEM_KB == 400

\* the size of a stored item, in KB: the messages of the runs are of 1 KB
\* where no size is given
ItemKB(item) == IF "kb" \in DOMAIN item THEN item.kb ELSE 1

\* the number of items, counted from item k on, that fit in what is left of
\* a page that holds used KB already
RECURSIVE FitsInPage(_, _, _)
FitsInPage(found, k, used) ==
    IF k > Len(found) \/ used + ItemKB(found[k]) > QUERY_PAGE_KB THEN 0
    ELSE 1 + FitsInPage(found, k + 1, used + ItemKB(found[k]))

\* resp.get("Items", []) of one table.query without Limit
\* (dynamodb_store.py:83-89): the in-memory table answers with every item
\* matched (mock_dynamodb.py:246-286); DynamoDB answers with the first page,
\* the items in key order up to 1 MB, and a LastEvaluatedKey that the caller
\* would have to send back to get the rest
query_items(backend, found) ==
    IF backend = "dynamodb"
    THEN SubSeq(found, 1, FitsInPage(found, 1, 0))
    ELSE found

\* delete_conversation(conversation_id): the conversations table and the
\* messages table afterwards; the messages deleted are those of the one
\* answer of the query (dynamodb_store.py:83-90)
delete_conversation(backend, conversations, msgs, conversation_id) ==
    LET found == query_items(backend, query(ItemsOf(msgs, conversation_id)))
        RECURSIVE Batch(_, _)
        Batch(table, k) ==
            IF k > Len(found) THEN table
            ELSE Batch(delete_item(table,
                          [conversationId |-> found[k].conversationId,
                           timestamp |-> found[k].timestamp]), k + 1)
    IN  [conversations |-> delete_item(conversations,
                                       [conversationId |-> conversation_id]),
         messages |-> Batch(msgs, 1)]

\* the users, the conversations (the third is not in the table) and the
\* fact blobs of the runs
TableUsers == {"u1", "u2"}
TableConversations == {"conv_a", "conv_b", "conv_c"}
FactBlobs == {[t |-> "model_facts"], Merged([t |-> "model_facts"]), EmptyText}

\* the item of the conversations table for a conversation of a user
ConversationItem(conversation_id, user_id) ==
    [conversationId |-> conversation_id, userId |-> user_id,
     title |-> NewChatTitle, language |-> "en", summary |-> EmptyText,
     messageCount |-> 0]

\* the tables of the runs: in memory or on DynamoDB, with messages of 1 KB
\* or, on DynamoDB, of the largest size
TableStores ==
    {[backend |-> b, kb |-> 1] : b \in Backends}
    \cup {[backend |-> "dynamodb", kb |-> MAX_ITEM_KB]}

\* the first n messages of a conversation as items of the messages table,
\* each of kb KB
MessageItems(conversation_id, n, kb) ==
    [k \in 1..n |->
        [conversationId |-> conversation_id, kb |-> kb,
         role |-> PastMessages(n)[k].role,
         content |-> PastMessages(n)[k].content,
         timestamp |-> PastMessages(n)[k].timestamp]]

TablesInit ==
    /\ \E na \in 0..MaxConvMessages, nb \in 0..MaxConvMessages,
          known \in SUBSET TableUsers, store \in TableStores :
          result = [t |-> "tables", backend |-> store.backend,
                    conversations |-> <<ConversationItem("conv_a", "u1"),
                                        ConversationItem("conv_b", "u2")>>,
                    messages |-> MessageItems("conv_a", na, store.kb)
                                    \o MessageItems("conv_b", nb, store.kb),
                    memory |-> IF known = {} THEN <<>>
                               ELSE IF known = {"u1"}
                               THEN <<[userId |-> "u1", facts |-> [t |-> "model_facts"],
                                       updatedAt |-> 0]>>
                               ELSE IF known = {"u2"}
                               THEN <<[userId |-> "u2", facts |-> [t |-> "model_facts"],
                                       updatedAt |-> 0]>>
                               ELSE <<[userId |-> "u1", facts |-> [t |-> "model_facts"],
                                       updatedAt |-> 0],
                                      [userId |-> "u2", facts |-> [t |-> "model_facts"],
                                       updatedAt |-> 0]>>,
                    calls |-> <<>>]
    /\ text = <<>>
    /\ lang = "en"
    /\ fpc = "input"
    /\ human_input = InputText(<<>>)
    /\ selected_language = "en"
    /\ language_accepted = "unset"
    /\ language_rejection = [t |-> "unset"]
    /\ messages = <<>>
    /\ tool_outputs = <<>>
    /\ pc = "idle"
    /\ visited = <<>>
    /\ llm_calls = 0
    /\ next_call_id = 1
    /\ mem_calls = 0
    /\ last_llm = "none"
    /\ issued = <<>>
    /\ conv = None
    /\ local_conv = None
    /\ stored = <<>>
    /\ ltm = None
    /\ response = None
    /\ clock = 0
    /\ mem_outcome = "none"
    /\ summary_call = "none"
    /\ locals = None

\* one call of update_long_term_memory, in the present second or the next
TablesUpdateMemory ==
    /\ Len(result.calls) < MaxTableOps
    /\ \E user_id \in TableUsers, facts \in FactBlobs, tick \in {0, 1} :
          LET after == update_long_term_memory(result.memory, user_id, facts,
                                               clock + tick)
          IN  /\ result' = [result EXCEPT
                    !.memory = after,
                    !.calls = Append(@, [op |-> "update_long_term_memory",
                                         user_id |-> user_id, facts |-> facts,
                                         before |-> result.memory,
                                         after |-> after])]
              /\ clock' = clock + tick
    /\ fpc' = "done"
    /\ UNCHANGED <<text, lang, messages, tool_outputs, conv, stored, ltm>>
    /\ UNCHANGED ctlVars

\* one call of delete_conversation
TablesDeleteConversation ==
    /\ Len(result.calls) < MaxTableOps
    /\ \E conversation_id \in TableConversations :
          LET after == delete_conversation(result.backend, result.conversations,
                                           result.messages, conversation_id)
          IN  result' = [result EXCEPT
                    !.conversations = after.conversations,
                    !.messages = after.messages,
                    !.calls = Append(@, [op |-> "delete_conversation",
                                         conversation_id |-> conversation_id,
                                         before |-> [conversations |-> result.conversations,
                                                     messages |-> result.messages,
                                                     memory |-> result.memory],
                                         after |-> [conversations |-> after.conversations,
                                                    messages |-> after.messages,
                                                    memory |-> result.memory]])]
    /\ fpc' = "done"
    /\ UNCHANGED <<text, lang, messages, tool_outputs, conv, stored, ltm, clock>>
    /\ UNCHANGED ctlVars

TablesNext ==
    \/ TablesUpdateMemory
    \/ TablesDeleteConversation

SpecTables == TablesInit /\ [][TablesNext]_vars

--------------------------------------------------------------------------
(***************************************************************************)
(* A turn of send_message during which the store is unreachable.           *)
(***************************************************************************)

PersistInit ==
    /\ \E past_turns \in PastTurns :
          /\ stored = PastMessages(past_turns)
          /\ conv = PastConversation("en", past_turns)
          /\ clock = 2 * past_turns
    /\ result = NoRequests
    /\ human_input = InputText(<<>>)
    /\ text = <<>>
    /\ lang = "en"
    /\ fpc = "input"
    /\ selected_language = "en"
    /\ language_accepted = "unset"
    /\ language_rejection = [t |-> "unset"]
    /\ messages = <<>>
    /\ tool_outputs = <<>>
    /\ pc = "idle"
    /\ visited = <<>>
    /\ llm_calls = 0
    /\ next_call_id = 1
    /\ mem_calls = 0
    /\ last_llm = "none"
    /\ issued = <<>>
    /\ local_conv = None
    /\ ltm = None
    /\ response = None
    /\ mem_outcome = "none"
    /\ summary_call = "none"
    /\ locals = None

\* the failures a new request may meet: the store fails, if it does, for
\* the first request of the run
Outages(sent) == IF sent = 0 THEN StoreFailures ELSE {NoFailure}

\* the owner sends a message, and the store fails during the request as
\* fail says
PersistSend ==
    /\ result.sent < MaxInFlight
    /\ \E s \in Slots, input \in {AcceptedInput, RejectedInput},
          content \in {[t |-> "model_text"], EmptyText},
          fail \in Outages(result.sent) :
          Send(s, User, input, content, fail)

PersistNext ==
    \/ PersistSend
    \/ \E s \in Slots : TurnLoad(s)
    \/ \E s \in Slots : TurnLoadWrite(s)
    \/ \E s \in Slots : TurnMemory(s)
    \/ \E s \in Slots : TurnMemoryWrite(s)
    \/ \E s \in Slots : TurnFinish(s)
    \/ \E s \in Slots : TurnSummaryWrite(s)

SpecPersist == PersistInit /\ [][PersistNext]_vars

--------------------------------------------------------------------------
(***************************************************************************)
(* Two turns of send_message in flight at the same time.  A turn gives up *)
(* control where the code awaits a model: between the reads and the write  *)
(* of build_message_history when it generates a summary, between the       *)
(* lookup of the facts and their write in                                  *)
(* extract_and_update_long_term_memory, and between the reads and the      *)
(* write of maybe_update_summary.                                          *)
(***************************************************************************)

RaceTurns == {1, 2}

\* the conversation and the user of a turn: the turns are on one
\* conversation, or on two conversations of one user or of two users
ConvOf(r, t) == IF r.same_conv \/ t = 1 THEN "conv_a" ELSE "conv_b"
UserOf(r, t) == IF r.same_conv \/ r.same_user \/ t = 1 THEN "u1" ELSE "u2"

\* the permanent fact the exchange of a turn reveals
FactOf(t) == IF t = 1 THEN "home_port" ELSE "boat_type"

\* the facts a fact list holds
Known(existing) == IF existing.t = "facts" THEN existing.items ELSE {}

\* the extraction model's answer to a prompt with these existing facts and
\* an exchange that reveals a new fact: the complete merged list
Learned(existing, fact) ==
    [ok |-> TRUE, text |-> [t |-> "facts", items |-> Known(existing) \cup {fact}]]

\* the summarizer's answer in these runs
RaceSummary == [ok |-> TRUE, text |-> [t |-> "model_text"]]

\* what a turn holds in its locals: the conversation record read at its
\* start, the facts and the older messages read before an await; and, for
\* the order of the two turns' reads and writes, the steps of the run at
\* which the turn read the facts, wrote them, read the messages to
\* summarize and wrote the summary (0: not yet)
NoLocals ==
    [conv |-> None, existing |-> None, older |-> <<>>,
     read_facts |-> 0, wrote_facts |-> 0, read_log |-> 0, wrote_summary |-> 0]

RaceInit ==
    /\ \E past_turns \in PastTurns \cup ConvPastTurns,
          same_conv \in BOOLEAN, same_user \in BOOLEAN :
          LET past == IF past_turns = 0 THEN PastConversation("en", 0)
                      ELSE maybe_update_summary(PastMessages(past_turns),
                              PastConversation("en", past_turns), RaceSummary)
          IN  /\ same_conv => same_user
              /\ clock = 2 * past_turns
              /\ result = [t |-> "race", same_conv |-> same_conv,
                           same_user |-> same_user, past_turns |-> past_turns,
                           pc |-> [t \in RaceTurns |-> "start"],
                           now |-> 0,
                           loc |-> [t \in RaceTurns |-> NoLocals],
                           msgs |-> [c \in {"conv_a", "conv_b"} |->
                                       PastMessages(past_turns)],
                           convs |-> [c \in {"conv_a", "conv_b"} |->
                                        update_conversation(past,
                                           [userId |->
                                               IF c = "conv_a" \/ same_user
                                               THEN "u1" ELSE "u2"])],
                           facts |-> [u \in TableUsers |-> None]]
    /\ text = <<>>
    /\ lang = "en"
    /\ fpc = "input"
    /\ human_input = InputText(<<>>)
    /\ selected_language = "en"
    /\ language_accepted = "unset"
    /\ language_rejection = [t |-> "unset"]
    /\ messages = <<>>
    /\ tool_outputs = <<>>
    /\ pc = "idle"
    /\ visited = <<>>
    /\ llm_calls = 0
    /\ next_call_id = 1
    /\ mem_calls = 0
    /\ last_llm = "none"
    /\ issued = <<>>
    /\ conv = None
    /\ local_conv = None
    /\ stored = <<>>
    /\ ltm = None
    /\ response = None
    /\ mem_outcome = "none"
    /\ summary_call = "none"
    /\ locals = None

\* what every step of the race leaves alone
RaceFrame ==
    /\ fpc' = "done"
    /\ UNCHANGED <<text, lang, messages, tool_outputs, conv, stored, ltm>>
    /\ UNCHANGED ctlVars

\* messages.py:42-51: the conversation record is read, a request on a
\* missing or foreign conversation is refused, and otherwise the user's
\* message is saved; send_message takes no lock and looks at no other
\* request
RaceStart(t) ==
    /\ result.pc[t] = "start"
    /\ LET c == ConvOf(result, t)
       IN  IF send_message_status(result.convs[c], UserOf(result, t)) # 200
           THEN /\ result' = [result EXCEPT !.pc[t] = "done", !.now = @ + 1]
                /\ UNCHANGED clock
           ELSE /\ result' = [result EXCEPT
                      !.pc[t] = "load",
                      !.now = @ + 1,
                      !.loc[t].conv = result.convs[c],
                      !.msgs[c] = save_message(@, "user", AcceptedInput, <<>>,
                                               Timestamp(clock, "000"))]
                /\ clock' = clock + 1
    /\ RaceFrame

\* graph.py:99 and manager.py:51-67: build_message_history reads the
\* messages and the conversation record; when it has a summary to generate
\* the summarizer is awaited, otherwise load_context runs on and agent
\* calls the model
RaceLoad(t) ==
    /\ result.pc[t] = "load"
    /\ LET c == ConvOf(result, t)
           history == build_message_history(result.msgs[c], result.convs[c],
                                            RaceSummary)
       IN  result' = [result EXCEPT
               !.pc[t] = IF history.summarized THEN "load_write" ELSE "mem_read",
               !.now = @ + 1,
               !.loc[t].older =
                   OlderThanWindow(get_messages(result.msgs[c], HISTORY_FETCH_LIMIT))]
    /\ UNCHANGED clock
    /\ RaceFrame

\* manager.py:67-69: the summarizer has answered and the summary of the
\* messages read before the await is written; then agent calls the model
RaceLoadWrite(t) ==
    /\ result.pc[t] = "load_write"
    /\ LET c == ConvOf(result, t)
       IN  result' = [result EXCEPT
               !.pc[t] = "mem_read",
               !.now = @ + 1,
               !.convs[c] = update_conversation(@,
                     [summary |-> summarize_messages(result.loc[t].older,
                                                     RaceSummary)])]
    /\ UNCHANGED clock
    /\ RaceFrame

\* manager.py:129: the existing facts are looked up, then the extraction
\* model is awaited
RaceMemRead(t) ==
    /\ result.pc[t] = "mem_read"
    /\ result' = [result EXCEPT
          !.pc[t] = "mem_write",
          !.now = @ + 1,
          !.loc[t].read_facts = result.now + 1,
          !.loc[t].existing = ExistingFacts(result.facts[UserOf(result, t)])]
    /\ UNCHANGED clock
    /\ RaceFrame

\* extract_and_update_long_term_memory looking the facts up again after
\* the model's answer, and merging the turn's fact into what it finds then
RaceMemWriteReread(t) ==
    /\ result.pc[t] = "mem_write"
    /\ LET existing == ExistingFacts(result.facts[UserOf(result, t)])
           out == extract_and_update_long_term_memory(existing,
                     Learned(existing, FactOf(t)), "ok")
       IN  result' = [result EXCEPT !.pc[t] = "finish",
                                    !.now = @ + 1,
                                    !.loc[t].wrote_facts = result.now + 1,
                                    !.facts[UserOf(result, t)] =
                                        IF out.put THEN out.facts ELSE @]
    /\ UNCHANGED clock
    /\ RaceFrame

\* manager.py:143-145: the model has answered the prompt that held the
\* facts read before the await, and its list is written
RaceMemWrite(t) ==
    /\ result.pc[t] = "mem_write"
    /\ LET existing == result.loc[t].existing
           out == extract_and_update_long_term_memory(existing,
                     Learned(existing, FactOf(t)), "ok")
       IN  result' = [result EXCEPT !.pc[t] = "finish",
                                    !.now = @ + 1,
                                    !.loc[t].wrote_facts = result.now + 1,
                                    !.facts[UserOf(result, t)] =
                                        IF out.put THEN out.facts ELSE @]
    /\ UNCHANGED clock
    /\ RaceFrame

\* messages.py:105-120 and manager.py:76-81: the answer is saved, the
\* conversation record updated, the messages counted and read, then the
\* summarizer is awaited
RaceFinish(t) ==
    /\ result.pc[t] = "finish"
    /\ LET c == ConvOf(result, t)
           log == save_message(result.msgs[c], "assistant", [t |-> "model_text"],
                               <<>>, Timestamp(clock, "000"))
           mine == result.loc[t].conv
           title == IF mine.title = NewChatTitle /\ Truthy(AcceptedInput)
                    THEN AutoTitle(AcceptedInput.cps) ELSE mine.title
           counted == update_conversation(result.convs[c],
                         [messageCount |-> mine.messageCount + 2,
                          title |-> title])
           older == OlderThanWindow(get_messages(log, HISTORY_FETCH_LIMIT))
       IN  result' = [result EXCEPT
               !.pc[t] = IF count_messages(log) <= SHORT_TERM_MESSAGE_LIMIT
                         THEN "done" ELSE "sum_write",
               !.now = @ + 1,
               !.loc[t].read_log = result.now + 1,
               !.loc[t].older = older,
               !.msgs[c] = log,
               !.convs[c] = counted]
    /\ clock' = clock + 1
    /\ RaceFrame

\* manager.py:82-83: the summary is written
RaceSumWrite(t) ==
    /\ result.pc[t] = "sum_write"
    /\ LET c == ConvOf(result, t)
       IN  result' = [result EXCEPT
               !.pc[t] = "done",
               !.now = @ + 1,
               !.loc[t].wrote_summary = result.now + 1,
               !.convs[c] = update_conversation(@,
                     [summary |-> summarize_messages(result.loc[t].older,
                                                     RaceSummary)])]
    /\ UNCHANGED clock
    /\ RaceFrame

RaceStep(t) ==
    \/ RaceStart(t)
    \/ RaceLoad(t)
    \/ RaceLoadWrite(t)
    \/ RaceMemRead(t)
    \/ RaceMemWrite(t)
    \/ RaceFinish(t)
    \/ RaceSumWrite(t)

RaceNext == \E t \in RaceTurns : RaceStep(t)

SpecRace == RaceInit /\ [][RaceNext]_vars

--------------------------------------------------------------------------
(***************************************************************************)
(* tool_executor running a get_catch_details request of the model on the   *)
(* images table.                                                           *)
(***************************************************************************)

ImageIds == {"img_1", "img_2"}

\* the record of an image: owned by a user, or without a userId attribute
ImageItem(image_id, owner) ==
    IF owner = "unowned" THEN [imageId |-> image_id, species |-> "fish"]
    ELSE [imageId |-> image_id, userId |-> owner, species |-> "fish"]

\* item.get("userId")
OwnerOf(item) == IF "userId" \in DOMAIN item THEN item.userId ELSE "None"

\* the arguments the model may give in a get_catch_details request: the
\* image_id alone, or with a user_id of its choosing
CatchArgs ==
    {[image_id |-> i] : i \in ImageIds}
    \cup {[image_id |-> i, user_id |-> u] : i \in ImageIds, u \in {""} \cup TableUsers}

\* the parameters the tool function is called with: the arguments of the
\* request, and the default "" for a user_id the request leaves out
\* (specific_catch.py:13)
BoundArgs(args) ==
    [image_id |-> args.image_id,
     user_id |-> IF "user_id" \in DOMAIN args THEN args.user_id ELSE ""]

\* get_catch_details(image_id, user_id)
get_catch_details(images, image_id, user_id, store) ==
    IF store = "raises" THEN [t |-> "could_not_fetch", image_id |-> image_id]
    ELSE LET item == get_item(images, "imageId", image_id)
         IN  IF item = None THEN [t |-> "no_record", image_id |-> image_id]
             ELSE IF OwnerOf(item) # user_id
             THEN [t |-> "no_permission", image_id |-> image_id]
             ELSE [t |-> "catch_details", image_id |-> image_id, of |-> item]

\* the body of the executor's loop for a get_catch_details request:
\* TOOL_MAP[tool_name].ainvoke(call["args"])
ExecCatchCall(images, args, store) ==
    LET bound == BoundArgs(args)
    IN  [received |-> bound,
         out |-> get_catch_details(images, bound.image_id, bound.user_id, store)]

\* a turn of an authenticated user in which the model requests
\* get_catch_details, on any table of images
CatchInit ==
    /\ \E user \in TableUsers, args \in CatchArgs, store \in {"ok", "raises"},
          owners \in [ImageIds -> TableUsers \cup {"unowned", "missing"}] :
          result = [t |-> "catch", user |-> user, args |-> args, store |-> store,
                    images |-> (IF owners["img_1"] = "missing" THEN <<>>
                                ELSE <<ImageItem("img_1", owners["img_1"])>>)
                               \o (IF owners["img_2"] = "missing" THEN <<>>
                                   ELSE <<ImageItem("img_2", owners["img_2"])>>),
                    received |-> None, out |-> None]
    /\ text = <<>>
    /\ lang = "en"
    /\ fpc = "input"
    /\ human_input = InputText(<<>>)
    /\ selected_language = "en"
    /\ language_accepted = "unset"
    /\ language_rejection = [t |-> "unset"]
    /\ messages = <<>>
    /\ tool_outputs = <<>>
    /\ pc = "idle"
    /\ visited = <<>>
    /\ llm_calls = 0
    /\ next_call_id = 1
    /\ mem_calls = 0
    /\ last_llm = "none"
    /\ issued = <<>>
    /\ conv = None
    /\ local_conv = None
    /\ stored = <<>>
    /\ ltm = None
    /\ response = None
    /\ clock = 0
    /\ mem_outcome = "none"
    /\ summary_call = "none"
    /\ locals = None

CatchRun ==
    /\ fpc = "input"
    /\ LET ran == ExecCatchCall(result.images, result.args, result.store)
       IN  result' = [result EXCEPT !.received = ran.received, !.out = ran.out]
    /\ fpc' = "done"
    /\ UNCHANGED <<text, lang, messages, tool_outputs, conv, stored, ltm, clock>>
    /\ UNCHANGED ctlVars

CatchNext == CatchRun

SpecCatch == CatchInit /\ [][CatchNext]_vars

--------------------------------------------------------------------------
(***************************************************************************)
(* build_message_history called on conversations shorter than the window,  *)
(* longer than the window, and as long as the fetch cap or longer.         *)
(***************************************************************************)

\* the numbers of messages stored: around the window, and around the cap
WindowSizes ==
    (0..(SHORT_TERM_MESSAGE_LIMIT + 4))
    \cup ((HISTORY_FETCH_LIMIT - 2)..(HISTORY_FETCH_LIMIT + MaxOverCap))

WindowInit ==
    /\ \E n \in WindowSizes :
          /\ stored = SubSeq(PastMessages((n + 1) \div 2), 1, n)
          /\ clock = n
          /\ \E cached \in CachedSummaries(n) :
                conv = update_conversation(
                          PastConversation("en", n \div 2), [summary |-> cached])
    /\ text = <<>>
    /\ lang = "en"
    /\ result = [t |-> "build_message_history", calls |-> <<>>]
    /\ fpc = "input"
    /\ human_input = InputText(<<>>)
    /\ selected_language = "en"
    /\ language_accepted = "unset"
    /\ language_rejection = [t |-> "unset"]
    /\ messages = <<>>
    /\ tool_outputs = <<>>
    /\ pc = "idle"
    /\ visited = <<>>
    /\ llm_calls = 0
    /\ next_call_id = 1
    /\ mem_calls = 0
    /\ last_llm = "none"
    /\ issued = <<>>
    /\ local_conv = None
    /\ ltm = None
    /\ response = None
    /\ mem_outcome = "none"
    /\ summary_call = "none"
    /\ locals = None

\* a call of build_message_history begins (manager.py:51-67): the messages
\* and the conversation record are read; the summarizer is awaited when a
\* summary has to be generated, and the call is over otherwise
WindowBuild ==
    /\ Len(result.calls) < MaxOps
    /\ LET history == build_message_history(stored, conv, [ok |-> FALSE])
       IN  result' = [result EXCEPT !.calls = Append(@,
              [at |-> IF history.summarized THEN "await" ELSE "done",
               items |-> stored, before |-> conv, reply |-> None,
               recent |-> history.recent,
               summary |-> IF history.summarized THEN None ELSE history.summary,
               summarized |-> history.summarized])]
    /\ fpc' = "done"
    /\ UNCHANGED <<text, lang, messages, tool_outputs, stored, conv, ltm, clock>>
    /\ UNCHANGED ctlVars

\* the summarizer answers a waiting call (manager.py:67-71): the summary of
\* the messages the call read is written to the conversation record as it
\* is now, and returned
WindowBuildReturn ==
    /\ \E k \in InFlight(result.calls), reply \in SummarizerReplies :
          LET call == result.calls[k]
              history == build_message_history(call.items, call.before, reply)
          IN  /\ conv' = IF call.before # None
                         THEN update_conversation(conv,
                                                  [summary |-> history.summary])
                         ELSE conv
              /\ result' = [result EXCEPT !.calls[k] =
                     [call EXCEPT !.at = "done", !.reply = reply,
                                  !.summary = history.summary]]
    /\ UNCHANGED <<text, lang, fpc, messages, tool_outputs, stored, ltm, clock>>
    /\ UNCHANGED ctlVars

WindowNext ==
    \/ WindowBuild
    \/ WindowBuildReturn

SpecWindow == WindowInit /\ [][WindowNext]_vars

--------------------------------------------------------------------------
(***************************************************************************)
(* send_message called by a user on a conversation that is the user's,     *)
(* somebody else's, or not in the table.                                   *)
(***************************************************************************)

AccessInit ==
    /\ \E past_turns \in PastTurns, owner \in TableUsers \cup {"nobody"} :
          /\ stored = PastMessages(past_turns)
          /\ conv = IF owner = "nobody" THEN None
                    ELSE update_conversation(PastConversation("en", past_turns),
                                             [userId |-> owner])
          /\ clock = 2 * past_turns
    /\ result = NoRequests
    /\ human_input = InputText(<<>>)
    /\ text = <<>>
    /\ lang = "en"
    /\ fpc = "input"
    /\ selected_language = "en"
    /\ language_accepted = "unset"
    /\ language_rejection = [t |-> "unset"]
    /\ messages = <<>>
    /\ tool_outputs = <<>>
    /\ pc = "idle"
    /\ visited = <<>>
    /\ llm_calls = 0
    /\ next_call_id = 1
    /\ mem_calls = 0
    /\ last_llm = "none"
    /\ issued = <<>>
    /\ local_conv = None
    /\ ltm = None
    /\ response = None
    /\ mem_outcome = "none"
    /\ summary_call = "none"
    /\ locals = None

\* a user sends a message on the conversation
AccessSend ==
    /\ result.sent < MaxInFlight
    /\ \E s \in Slots, user \in TableUsers,
          input \in {AcceptedInput, RejectedInput},
          content \in {[t |-> "model_text"], EmptyText} :
          Send(s, user, input, content, NoFailure)

AccessNext ==
    \/ AccessSend
    \/ \E s \in Slots : TurnLoad(s)
    \/ \E s \in Slots : TurnLoadWrite(s)
    \/ \E s \in Slots : TurnMemory(s)
    \/ \E s \in Slots : TurnMemoryWrite(s)
    \/ \E s \in Slots : TurnFinish(s)
    \/ \E s \in Slots : TurnSummaryWrite(s)

SpecAccess == AccessInit /\ [][AccessNext]_vars

--------------------------------------------------------------------------
(***************************************************************************)
(* A turn of send_message and requests to the conversations routes        *)
(* (delete, update, create), interleaved where the turn awaits the graph,  *)
(* the extraction or the summarizer.                                       *)
(***************************************************************************)

\* update_conversation on a record that may have been deleted: update_item
\* of the in-memory table does nothing when no item has the key
\* (mock_dynamodb.py:302-313); UpdateItem of DynamoDB creates the item with
\* the attributes set
update_item(backend, c, fields) ==
    IF c = None
    THEN IF backend = "mock" THEN None ELSE fields
    ELSE [k \in DOMAIN c \cup DOMAIN fields |->
             IF k \in DOMAIN fields THEN fields[k] ELSE c[k]]

\* the conversation's record and messages as items of the two tables
AsConversations(c) ==
    IF c = None THEN <<>> ELSE <<[conversationId |-> "conv_a", item |-> c]>>
AsMessages(items) ==
    [i \in DOMAIN items |->
        [conversationId |-> "conv_a", timestamp |-> items[i].timestamp,
         item |-> items[i]]]

DeleteRaceInit ==
    /\ \E past_turns \in PastTurns \cup ConvPastTurns, backend \in Backends,
          input \in {AcceptedInput, RejectedInput} :
          /\ stored = PastMessages(past_turns)
          /\ conv = IF past_turns = 0 THEN PastConversation("en", 0)
                    ELSE maybe_update_summary(PastMessages(past_turns),
                            PastConversation("en", past_turns), RaceSummary)
          /\ clock = 2 * past_turns
          /\ human_input = input
          /\ result = [t |-> "delete_race", backend |-> backend, at |-> "start",
                       deleted_at |-> "never", older |-> <<>>,
                       existing |-> None, calls |-> 0, status |-> 0,
                       created |-> <<>>]
    /\ text = <<>>
    /\ lang = "en"
    /\ fpc = "input"
    /\ selected_language = "en"
    /\ language_accepted = "unset"
    /\ language_rejection = [t |-> "unset"]
    /\ messages = <<>>
    /\ tool_outputs = <<>>
    /\ pc = "idle"
    /\ visited = <<>>
    /\ llm_calls = 0
    /\ next_call_id = 1
    /\ mem_calls = 0
    /\ last_llm = "none"
    /\ issued = <<>>
    /\ local_conv = None
    /\ ltm = None
    /\ response = None
    /\ mem_outcome = "none"
    /\ summary_call = "none"
    /\ locals = None

\* what the steps of the turn and the delete leave alone
DeleteRaceFrame ==
    /\ UNCHANGED <<text, lang, fpc, messages, tool_outputs>>
    /\ UNCHANGED <<human_input, selected_language, language_accepted,
                   language_rejection, pc, visited, llm_calls, next_call_id,
                   mem_calls, last_llm, issued, response, mem_outcome,
                   summary_call, locals>>

\* the status the routes on a conversation settle at their start
\* (conversations.py:82-86, 100-104): 404 without a record, 403 when the
\* userId of the record is not the caller's (conv.get("userId") of a record
\* without the attribute is None), and otherwise 200
route_status(c, user) ==
    IF c = None THEN 404
    ELSE IF "userId" \notin DOMAIN c THEN 403
    ELSE IF c.userId # user THEN 403
    ELSE 200

\* "renamed"
RenamedTitle == [t |-> "title", cps |-> <<114, 101, 110, 97, 109, 101, 100>>]

\* the bodies of the update requests: a title and a language, each given
\* or left out (None)
UpdateBodies ==
    {[given |-> given, title |-> RenamedTitle, language |-> "hi"] :
        given \in SUBSET {"title", "language"}}

\* the bodies of the create requests
CreateBodies ==
    {[given |-> given, title |-> RenamedTitle, language |-> "ta"] :
        given \in SUBSET {"title", "language"}}

\* body.model_dump() without the fields that are None (conversations.py:88)
GivenFields(body) == [k \in body.given |-> body[k]]

\* conversations.py:95-107: a delete request of a user: refused on a missing
\* or foreign record, otherwise the record and the messages found by the
\* query are deleted
DeleteRequest ==
    /\ result.calls < MaxRouteCalls
    /\ \E user \in TableUsers :
          LET status == route_status(conv, user)
              out == delete_conversation(result.backend, AsConversations(conv),
                                         AsMessages(stored), "conv_a")
          IN  IF status # 200
              THEN /\ result' = [result EXCEPT !.calls = @ + 1,
                                               !.status = status]
                   /\ UNCHANGED <<conv, stored>>
              ELSE /\ conv' = IF out.conversations = <<>> THEN None
                              ELSE out.conversations[1].item
                   /\ stored' = [i \in DOMAIN out.messages |->
                                    out.messages[i].item]
                   /\ result' = [result EXCEPT
                         !.calls = @ + 1, !.status = status,
                         !.deleted_at = IF @ = "never" THEN result.at ELSE @]
    /\ UNCHANGED <<clock, local_conv, ltm>>
    /\ DeleteRaceFrame

\* conversations.py:76-92: an update request of a user: refused on a
\* missing or foreign record, otherwise the fields given in the body are
\* written to the record
PatchRequest ==
    /\ result.calls < MaxRouteCalls
    /\ \E user \in TableUsers, body \in UpdateBodies :
          LET status == route_status(conv, user)
              updates == GivenFields(body)
          IN  /\ conv' = IF status = 200 /\ DOMAIN updates # {}
                         THEN update_item(result.backend, conv, updates)
                         ELSE conv
              /\ result' = [result EXCEPT !.calls = @ + 1, !.status = status]
    /\ UNCHANGED <<stored, clock, local_conv, ltm>>
    /\ DeleteRaceFrame

\* conversations.py:41-51: a create request of a user adds a record of a
\* new conversation to the table
CreateRequest ==
    /\ result.calls < MaxRouteCalls
    /\ \E user \in TableUsers, body \in CreateBodies :
          result' = [result EXCEPT
             !.calls = @ + 1, !.status = 200,
             !.created = Append(@, create_conversation(user,
                            IF "title" \in body.given THEN body.title
                            ELSE NewChatTitle,
                            IF "language" \in body.given THEN body.language
                            ELSE "en"))]
    /\ UNCHANGED <<conv, stored, clock, local_conv, ltm>>
    /\ DeleteRaceFrame

\* messages.py:42-53: the conversation is looked up and the user's message
\* saved; a conversation that is gone ends the request (404)
DeleteRaceStart ==
    /\ result.at = "start"
    /\ IF conv = None
       THEN /\ result' = [result EXCEPT !.at = "done"]
            /\ UNCHANGED <<stored, clock, local_conv>>
       ELSE /\ local_conv' = conv
            /\ stored' = save_message(stored, "user", human_input, <<>>,
                                      Timestamp(clock, "000"))
            /\ clock' = clock + 1
            /\ result' = [result EXCEPT !.at = "graph"]
    /\ UNCHANGED <<conv, ltm>>
    /\ DeleteRaceFrame

\* graph.ainvoke: language_guard and, for an accepted input, load_context
\* up to its first await: build_message_history reads the messages and the
\* record and awaits the summarizer when it has a summary to generate
\* (manager.py:51-67), and writes it only to a record it found
\* (manager.py:68); otherwise load_context runs on and the model is awaited
DeleteRaceGraph ==
    /\ result.at = "graph"
    /\ IF language_guard(human_input, local_conv.language).language_accepted = "True"
       THEN LET history == build_message_history(stored, conv, RaceSummary)
            IN  result' = [result EXCEPT
                    !.at = IF history.summarized /\ conv # None
                           THEN "load_write" ELSE "answer",
                    !.older = OlderThanWindow(
                                  get_messages(stored, HISTORY_FETCH_LIMIT))]
       ELSE result' = [result EXCEPT !.at = "reject"]
    /\ UNCHANGED <<conv, stored, clock, local_conv, ltm>>
    /\ DeleteRaceFrame

\* manager.py:67-69: the summarizer has answered and the summary of the
\* messages read before the await is written to the record found then;
\* then load_context runs on and the model is awaited
DeleteRaceLoadWrite ==
    /\ result.at = "load_write"
    /\ conv' = update_item(result.backend, conv,
                   [summary |-> summarize_messages(result.older, RaceSummary)])
    /\ result' = [result EXCEPT !.at = "answer"]
    /\ UNCHANGED <<stored, clock, local_conv, ltm>>
    /\ DeleteRaceFrame

\* messages.py:76-86: the rejection is saved
DeleteRaceReject ==
    /\ result.at = "reject"
    /\ stored' = save_message(stored, "assistant",
                     language_guard(human_input, local_conv.language).language_rejection,
                     <<>>, Timestamp(clock, "000"))
    /\ clock' = clock + 1
    /\ result' = [result EXCEPT !.at = "done"]
    /\ UNCHANGED <<conv, local_conv, ltm>>
    /\ DeleteRaceFrame

\* the model has answered and memory_update runs up to its await
\* (graph.py:218-230, manager.py:129): the user's facts are looked up, then
\* the extraction model is awaited
DeleteRaceMemRead ==
    /\ result.at = "answer"
    /\ result' = [result EXCEPT !.at = "mem_write",
                                !.existing = ExistingFacts(ltm)]
    /\ UNCHANGED <<conv, stored, clock, local_conv, ltm>>
    /\ DeleteRaceFrame

\* manager.py:143-145: the extraction model has answered with the facts
\* read before the await merged with new ones, and the list is written
DeleteRaceMemWrite ==
    /\ result.at = "mem_write"
    /\ LET out == extract_and_update_long_term_memory(result.existing,
                     [ok |-> TRUE, text |-> Merged(result.existing)], "ok")
       IN  ltm' = IF out.put THEN out.facts ELSE ltm
    /\ result' = [result EXCEPT !.at = "finish", !.existing = None]
    /\ UNCHANGED <<conv, stored, clock, local_conv>>
    /\ DeleteRaceFrame

\* messages.py:105-120 and manager.py:76-81: the answer is saved, the
\* conversation record updated, the messages counted and read, then the
\* summarizer is awaited
DeleteRaceAnswer ==
    /\ result.at = "finish"
    /\ LET log == save_message(stored, "assistant", [t |-> "model_text"], <<>>,
                               Timestamp(clock, "000"))
           title == IF local_conv.title = NewChatTitle /\ Truthy(human_input)
                    THEN AutoTitle(human_input.cps) ELSE local_conv.title
       IN  /\ stored' = log
           /\ conv' = update_item(result.backend, conv,
                          [messageCount |-> local_conv.messageCount + 2,
                           title |-> title])
           /\ result' = [result EXCEPT
                 !.at = IF count_messages(log) <= SHORT_TERM_MESSAGE_LIMIT
                        THEN "done" ELSE "summary",
                 !.older = OlderThanWindow(get_messages(log, HISTORY_FETCH_LIMIT))]
    /\ clock' = clock + 1
    /\ UNCHANGED <<local_conv, ltm>>
    /\ DeleteRaceFrame

\* manager.py:82-83: the summary is written
DeleteRaceSummary ==
    /\ result.at = "summary"
    /\ conv' = update_item(result.backend, conv,
                   [summary |-> summarize_messages(result.older, RaceSummary)])
    /\ result' = [result EXCEPT !.at = "done"]
    /\ UNCHANGED <<stored, clock, local_conv, ltm>>
    /\ DeleteRaceFrame

DeleteRaceNext ==
    \/ DeleteRequest
    \/ PatchRequest
    \/ CreateRequest
    \/ DeleteRaceStart
    \/ DeleteRaceGraph
    \/ DeleteRaceLoadWrite
    \/ DeleteRaceReject
    \/ DeleteRaceMemRead
    \/ DeleteRaceMemWrite
    \/ DeleteRaceAnswer
    \/ DeleteRaceSummary

SpecDeleteRace == DeleteRaceInit /\ [][DeleteRaceNext]_vars

--------------------------------------------------------------------------
(***************************************************************************)
(* The loop agent <-> tool_executor driven by a model that answers every   *)
(* invocation with a tool-call request.                                    *)
(***************************************************************************)

\* the tool-calling replies of such a model: one request, with a fresh id
ToolCallingReplies(first_id) ==
    {AIMessage(EmptyText, calls) : calls \in CallLists(1, first_id)}

\* number of times tool_executor has run in this turn
ToolRounds == Cardinality({i \in DOMAIN visited : visited[i] = "tool_executor"})

\* the turn "rain" of a fresh English conversation, as load_context leaves it
LoopInit ==
    /\ text = <<>>
    /\ lang = "en"
    /\ result = None
    /\ fpc = "off"
    /\ human_input = InputText(<<114, 97, 105, 110>>)
    /\ selected_language = "en"
    /\ language_accepted = "True"
    /\ language_rejection = None
    /\ conv = create_conversation(User, NewChatTitle, "en")
    /\ local_conv = conv
    /\ stored = save_message(<<>>, "user", human_input, <<>>, Timestamp(0, "000"))
    /\ ltm = None
    /\ messages = load_context(
                     build_message_history(stored, conv, [ok |-> FALSE]),
                     human_input, selected_language, ltm)
    /\ tool_outputs = <<>>
    /\ pc = "agent"
    /\ visited = <<"language_guard", "load_context">>
    /\ llm_calls = 0
    /\ next_call_id = 1
    /\ mem_calls = 0
    /\ last_llm = "none"
    /\ issued = <<>>
    /\ response = None
    /\ clock = 0
    /\ mem_outcome = "none"
    /\ summary_call = "none"
    /\ locals = None

\* node agent, then route_agent, with the tool-calling model
LoopAgent ==
    /\ pc = "agent"
    /\ llm_calls <= MaxRounds
    /\ \E reply \in ToolCallingReplies(next_call_id) :
          /\ messages' = agent(messages, human_input, selected_language, reply)
          /\ issued' = issued \o reply.tool_calls
          /\ next_call_id' = next_call_id + Len(reply.tool_calls)
    /\ last_llm' = "ok"
    /\ llm_calls' = llm_calls + 1
    /\ visited' = Append(visited, "agent")
    /\ pc' = route_agent(messages')
    /\ UNCHANGED <<human_input, selected_language, language_accepted,
                   language_rejection, tool_outputs, mem_calls,
                   conv, local_conv, stored, ltm, response, clock, mem_outcome,
                   summary_call, locals>>
    /\ UNCHANGED fnVars

LoopNext ==
    \/ LoopAgent
    \/ ToolExecutor

SpecLoop == LoopInit /\ [][LoopNext]_vars

--------------------------------------------------------------------------
(***************************************************************************)
(* The language guard's properties (checked under SpecGuard).              *)
(***************************************************************************)

\* The notions the properties are stated in, taken from the specification's
\* wording and not from validate_language's own helpers.

\* number of characters left after removing whitespace, digits, punctuation
\* and pictographic symbols
MeaningfulLength(s) ==
    Cardinality({i \in DOMAIN s :
        ~(IsSpace(s[i]) \/ IsDigit(s[i]) \/ IsStripPunct(s[i]) \/ IsEmoji(s[i]))})

\* the scripts of which the text holds at least one character
ScriptsPresent(s) ==
    {SCRIPT_ORDER[k] : k \in {j \in DOMAIN SCRIPT_ORDER :
        \E i \in DOMAIN s : s[i] \in SCRIPT_PATTERNS(SCRIPT_ORDER[j])}}

\* the native script of each supported language
NativeScript ==
    [l \in {"en", "hi", "mr", "ml", "ta", "te", "kn", "bn", "gu", "or"} |->
        CASE l = "en" -> "latin"
          [] l \in {"hi", "mr"} -> "devanagari"
          [] l = "ml" -> "malayalam"
          [] l = "ta" -> "tamil"
          [] l = "te" -> "telugu"
          [] l = "kn" -> "kannada"
          [] l = "bn" -> "bengali"
          [] l = "gu" -> "gujarati"
          [] l = "or" -> "odia"]

\* the scripts present that are neither the language's native script nor Latin
ForeignPresent(s, l) == ScriptsPresent(s) \ {NativeScript[l], "latin"}

Validated == fpc = "done" /\ result.t = "validate_language"

\* C2: every text of meaningful length below 3 is accepted, for every
\* selected language and whatever scripts the text contains.
C2_ShortInputAccepted ==
    (Validated /\ MeaningfulLength(text) < 3) => result.accepted = TRUE

\* a two-letter text in a script foreign to the selected language, padded
\* with a stripped character, has been validated
C2_Witness ==
    /\ Validated
    /\ Len(text) = 3
    /\ MeaningfulLength(text) = 2
    /\ lang \in SupportedLangs
    /\ ForeignPresent(text, lang) # {}

\* C3: every text whose only recognised script is Latin, or that holds no
\* recognised script, is accepted for every language code, supported or not.
C3_LatinOnlyAccepted ==
    (Validated /\ ScriptsPresent(text) \subseteq {"latin"}) => result.accepted = TRUE

\* a Latin-only text long enough to be judged has been validated for a
\* language whose native script is not Latin
C3_Witness ==
    /\ Validated
    /\ ScriptsPresent(text) = {"latin"}
    /\ MeaningfulLength(text) >= 3
    /\ lang \notin {"en"}

\* C4 as stated: for a supported language, every text holding a character of
\* a script other than the native one or Latin is rejected, and the reason
\* names that script and the language.
C4_ForeignRejected_Original ==
    (Validated /\ lang \in SupportedLangs /\ ForeignPresent(text, lang) # {})
        => /\ result.accepted = FALSE
           /\ result.reason.t = "reason"
           /\ result.reason.parts[2] \in ForeignPresent(text, lang)
           /\ result.reason.parts[4] = LANGUAGE_LABELS[lang]

\* C4 amended: for a supported language, every text of meaningful length at
\* least 3 holding a character of a script other than the native one or
\* Latin is rejected, and the reason names a foreign script present in the
\* text and the language's label.
C4_ForeignRejected ==
    (/\ Validated
     /\ lang \in SupportedLangs
     /\ MeaningfulLength(text) >= 3
     /\ ForeignPresent(text, lang) # {})
        => /\ result.accepted = FALSE
           /\ result.reason.t = "reason"
           /\ result.reason.parts[2] \in ForeignPresent(text, lang)
           /\ result.reason.parts[4] = LANGUAGE_LABELS[lang]
           /\ result.reason.parts[6] = LANGUAGE_LABELS[lang]

\* a text mixing the native script with a foreign one has been rejected
C4_Witness ==
    /\ Validated
    /\ lang \in SupportedLangs
    /\ MeaningfulLength(text) >= 3
    /\ NativeScript[lang] \in ScriptsPresent(text)
    /\ ForeignPresent(text, lang) # {}
    /\ result.accepted = FALSE

\* C5: for every supported language, a text mixing the native script with
\* Latin, and holding no other recognised script, is accepted.
C5_MixedNativeLatinAccepted ==
    (/\ Validated
     /\ lang \in SupportedLangs
     /\ ScriptsPresent(text) = {NativeScript[lang], "latin"})
        => result.accepted = TRUE

\* a native-plus-Latin text long enough to be judged has been accepted for
\* a language whose native script is not Latin
C5_Witness ==
    /\ Validated
    /\ lang = "or"
    /\ ScriptsPresent(text) = {"odia", "latin"}
    /\ MeaningfulLength(text) >= 3
    /\ result.accepted = TRUE

--------------------------------------------------------------------------
(***************************************************************************)
(* The tool-calling loop's property (checked under SpecLoop).              *)
(***************************************************************************)

\* C11: the tool-calling loop is bounded: a turn runs at most a fixed
\* number of agent/tool_executor rounds even when the model answers every
\* invocation with tool-call requests; once that many rounds have run, a
\* further request is not executed and the turn is ended with a fallback
\* text.  Stated for the cap MaxRounds.
C11_LoopBounded ==
    ToolRounds = MaxRounds => pc # "tool_executor"

--------------------------------------------------------------------------
(***************************************************************************)
(* The properties of the long-term memory (checked under SpecMemory).      *)
(***************************************************************************)

ExtractCalls == result.calls

\* the calls that are over
Done(calls) == {k \in DOMAIN calls : calls[k].at = "done"}

\* no other call ended between the two moments
Quiet(calls, k, from, to) ==
    \A j \in Done(calls) \ {k} : ~(from < calls[j].ended /\ calls[j].ended < to)

\* C13: when the call of the extraction model fails,
\* extract_and_update_long_term_memory is a no-op on the store: it writes
\* nothing, so that, no other call having written meanwhile, the user's
\* fact blob after the call is the blob before the call, and it stays
\* absent if it was absent.
C13_FailedExtractionIsNoOp ==
    \A k \in Done(ExtractCalls) :
        LET call == ExtractCalls[k]
        IN  (call.reply # None /\ ~call.reply.ok) =>
               /\ ~call.put
               /\ Quiet(ExtractCalls, k, call.began, call.ended) =>
                     call.after = call.before

\* the reply is what the prompt asks for: the existing facts unchanged, or
\* the existing facts merged with new ones
Obeys(call) ==
    /\ call.reply # None /\ call.reply.ok
    /\ Strip(call.reply.text) \in
          {ExistingFacts(call.before), Merged(ExistingFacts(call.before))}

\* the reply holds nothing new: it is the existing facts unchanged
Echoes(call) ==
    /\ call.reply # None /\ call.reply.ok
    /\ Strip(call.reply.text) = ExistingFacts(call.before)

\* call k was begun after call j was over, and no other call ended from the
\* end of j to the end of k
InvokedAgain(calls, j, k) ==
    /\ j \in Done(calls) /\ k \in Done(calls)
    /\ calls[j].ended < calls[k].began
    /\ \A i \in Done(calls) \ {j, k} :
          ~(calls[j].ended < calls[i].ended /\ calls[i].ended < calls[k].ended)

\* C14: the memory merge is idempotent: when the extraction is invoked
\* twice, one call after the other, with the same exchange and a model that
\* obeys the prompt (the second reply holds the existing facts unchanged),
\* the fact blob stored after the second invocation is the blob that
\* invocation read.
C14_MergeIdempotent ==
    \A j, k \in DOMAIN ExtractCalls :
        (/\ InvokedAgain(ExtractCalls, j, k)
         /\ Obeys(ExtractCalls[j]) /\ ExtractCalls[j].store = "ok"
         /\ Echoes(ExtractCalls[k]) /\ ExtractCalls[k].store = "ok")
        => /\ ExtractCalls[k].before = ExtractCalls[j].after
           /\ ExtractCalls[k].after = ExtractCalls[k].before
           /\ (\A i \in DOMAIN ExtractCalls :
                   ExtractCalls[i].ended <= ExtractCalls[k].ended)
                 => ltm = ExtractCalls[k].after

C14_Witness ==
    /\ Len(ExtractCalls) = 2
    /\ InvokedAgain(ExtractCalls, 1, 2)
    /\ ExtractCalls[1].reply = [ok |-> TRUE, text |-> Merged(NoFactsYet)]
    /\ ExtractCalls[1].store = "ok"
    /\ ExtractCalls[2].reply = [ok |-> TRUE, text |-> Pad(Merged(NoFactsYet))]
    /\ ExtractCalls[2].store = "ok"
    /\ ltm = Merged(NoFactsYet)

--------------------------------------------------------------------------
(***************************************************************************)
(* The properties of the message log and of the summary (checked under     *)
(* SpecStore).                                                             *)
(***************************************************************************)

StoreCalls == result.calls

\* the window W
W == SHORT_TERM_MESSAGE_LIMIT

\* the messages of a table older than the last W, in the order of their keys
OlderThanLastW(items) ==
    IF Len(items) > W THEN SubSeq(query(items), 1, Len(items) - W) ELSE <<>>

\* C15: for a conversation with more than W stored messages and no cached
\* summary, build_message_history returns a non-null summary and stores it
\* on the conversation record, so that a second call, made when the first is
\* over and with the store otherwise unchanged, returns the same summary
\* without calling the summarizer again.
C15_SummaryCachedAndReused ==
    \A k \in Done(StoreCalls) :
        (/\ StoreCalls[k].op = "build_message_history"
         /\ Len(StoreCalls[k].items) > W
         /\ ~Truthy(StoreCalls[k].before.summary))
        => /\ StoreCalls[k].summarized
           /\ StoreCalls[k].summary # None
           /\ StoreCalls[k].after.summary = StoreCalls[k].summary
           /\ \A n \in Done(StoreCalls) :
                 (/\ StoreCalls[n].op = "build_message_history"
                  /\ StoreCalls[n].began = StoreCalls[k].ended + 1)
                 => /\ ~StoreCalls[n].summarized
                    /\ StoreCalls[n].summary = StoreCalls[k].summary
                    /\ StoreCalls[n].after = StoreCalls[k].after

C15_Witness ==
    /\ Len(StoreCalls) = 2
    /\ StoreCalls[1].op = "build_message_history"
    /\ StoreCalls[2].op = "build_message_history"
    /\ Len(StoreCalls[1].items) = W + 1
    /\ StoreCalls[1].summarized
    /\ StoreCalls[1].at = "done"
    /\ StoreCalls[1].reply.ok
    /\ StoreCalls[2].began = StoreCalls[1].ended + 1
    /\ ~StoreCalls[2].summarized

\* C17: maybe_update_summary derives the summary again from the messages
\* older than the last W and overwrites the conversation's summary
\* whenever the conversation holds more than W messages, whether or not a
\* summary is cached (what it writes is the summarizer's text for the
\* messages it read, empty if the summarizer answers nothing, and the
\* fallback text if the summarizer fails); when the conversation holds at
\* most W messages it leaves the conversation record unchanged.
C17_ResummarizeOverwrites ==
    \A k \in Done(StoreCalls) :
        StoreCalls[k].op = "maybe_update_summary" =>
            IF Len(StoreCalls[k].items) > W
            THEN /\ StoreCalls[k].after.summary =
                       IF ~StoreCalls[k].reply.ok THEN SummaryUnavailable
                       ELSE IF StoreCalls[k].reply.text = EmptyText THEN EmptyText
                       ELSE [t |-> "summary",
                             of |-> Transcript(OlderThanLastW(StoreCalls[k].items))]
                 /\ \A f \in DOMAIN StoreCalls[k].before \ {"summary"} :
                       StoreCalls[k].after[f] = StoreCalls[k].before[f]
            ELSE /\ StoreCalls[k].after = StoreCalls[k].before
                 /\ StoreCalls[k].ended = StoreCalls[k].began

\* C20: the message log is append-only: every call of save_message leaves
\* every message stored before it present and unchanged and raises the
\* number of stored messages of the conversation by exactly one.
C20_LogAppendOnly ==
    \A k \in DOMAIN StoreCalls :
        StoreCalls[k].op = "save_message" =>
            /\ \A i \in DOMAIN StoreCalls[k].before :
                  \E j \in DOMAIN StoreCalls[k].after :
                     StoreCalls[k].after[j] = StoreCalls[k].before[i]
            /\ count_messages(StoreCalls[k].after)
                  = count_messages(StoreCalls[k].before) + 1

\* C21: the ordering keys increase in append order, also for messages
\* written within the same second: after every call of save_message,
\* get_messages in ascending order returns the message just appended after
\* every message appended before it.
C21_AppendOrderIsReadOrder ==
    \A k \in DOMAIN StoreCalls :
        StoreCalls[k].op = "save_message" =>
            LET read == get_messages(StoreCalls[k].after, HISTORY_FETCH_LIMIT)
                appended == Last(StoreCalls[k].after)
            IN  \A i, j \in DOMAIN read :
                    (read[i] # appended /\ read[j] = appended) => i < j

--------------------------------------------------------------------------
(***************************************************************************)
(* The properties of the summary over the turns of a conversation (checked *)
(* under SpecConv).                                                        *)
(***************************************************************************)

\* the context build of the last turn, if the turn built a context
LastBuild == result.build

\* the number of messages a summary was derived from
Covered(summary) == IF summary.t = "summary" THEN Len(summary.of) ELSE 0

\* the stored messages that are neither among the last W nor covered by the
\* summary a build used
Uncovered(build) ==
    IF build.total > W THEN build.total - W - Covered(build.summary) ELSE 0

\* C18: after any sequence of accepted, rejected and failed turns, at every
\* context build the number of stored messages that are neither among the
\* last W messages nor covered by the summary used for the build is at
\* most W.
C18_SummaryNeverDriftsPastWindow ==
    LastBuild # None => Uncovered(LastBuild) <= W

\* C19: in a conversation driven by turns from its creation, the summary
\* stays empty while the conversation holds at most W messages, a cached
\* summary is on the conversation record after the first context build
\* made once the (W+1)-th message is stored, and a context build that finds
\* a cached summary reuses it without calling the summarizer.
C19_SummaryAppearsAfterWindow ==
    /\ Len(stored) <= W => ~Truthy(conv.summary)
    /\ LastBuild # None =>
          /\ LastBuild.total <= W =>
                ~LastBuild.summarized /\ ~Truthy(LastBuild.after)
          /\ (LastBuild.total > W /\ ~Truthy(LastBuild.before)) =>
                LastBuild.summarized /\ Truthy(LastBuild.after)
          /\ Truthy(LastBuild.before) =>
                /\ ~LastBuild.summarized
                /\ LastBuild.summary = LastBuild.before
                /\ LastBuild.after = LastBuild.before

--------------------------------------------------------------------------
(***************************************************************************)
(* The property of the routes' answers (checked under SpecAnswer).         *)
(***************************************************************************)

\* a text that is not empty
NonEmptyText(c) == c.t \notin {"None", "blocks"} /\ Truthy(c)

\* C24: every turn that does not hit a persistence failure completes with
\* a non-empty textual response, on both routes: the rejection text, the
\* canned or error text, or the model's final answer, also when the model's
\* final message has no content or the graph raises.
C24_ResponseIsNonEmptyText ==
    (result.t = "reply" /\ fpc = "done") =>
        /\ NonEmptyText(result.reply.content)
        /\ result.reply.saved = result.reply.content

--------------------------------------------------------------------------
(***************************************************************************)
(* The properties of the tables (checked under SpecTables).                *)
(***************************************************************************)

TableCalls == result.calls

\* the records of a user in the memory table
RecordsOf(memory, user_id) ==
    {i \in DOMAIN memory : memory[i].userId = user_id}

\* the calls of update_long_term_memory made for a user
UpdatesOf(user_id) ==
    {k \in DOMAIN TableCalls :
        /\ TableCalls[k].op = "update_long_term_memory"
        /\ TableCalls[k].user_id = user_id}

\* C22: after any sequence of update_long_term_memory calls the memory
\* table holds at most one record per user, get_long_term_memory returns
\* exactly the fact blob of the user's most recent update, and each update
\* leaves the records of the other users unchanged.
C22_OneMemoryRecordPerUser ==
    result.t = "tables" =>
        /\ \A u \in TableUsers :
              /\ Cardinality(RecordsOf(result.memory, u)) <= 1
              /\ UpdatesOf(u) # {} =>
                    LET last == CHOOSE k \in UpdatesOf(u) :
                                    \A j \in UpdatesOf(u) : j <= k
                    IN  get_long_term_memory(result.memory, u) = TableCalls[last].facts
        /\ \A k \in DOMAIN TableCalls :
              TableCalls[k].op = "update_long_term_memory" =>
                 \A u \in TableUsers \ {TableCalls[k].user_id} :
                    get_item(TableCalls[k].after, "userId", u)
                       = get_item(TableCalls[k].before, "userId", u)

C22_Witness ==
    /\ result.t = "tables"
    /\ Len(TableCalls) = 2
    /\ TableCalls[1].op = "update_long_term_memory"
    /\ TableCalls[2].op = "update_long_term_memory"
    /\ TableCalls[1].user_id = "u1" /\ TableCalls[2].user_id = "u1"
    /\ TableCalls[1].facts = Merged([t |-> "model_facts"])
    /\ TableCalls[2].facts = EmptyText
    /\ get_long_term_memory(TableCalls[1].before, "u1") = [t |-> "model_facts"]
    /\ get_long_term_memory(result.memory, "u2") = [t |-> "model_facts"]

\* C23: after delete_conversation(c), get_conversation(c) returns nothing,
\* get_messages(c) and count_messages(c) report no messages, and the
\* records and the messages of every other conversation, and the memory
\* table, are unchanged.
C23_DeleteCascades ==
    result.t = "tables" =>
        \A k \in DOMAIN TableCalls :
            TableCalls[k].op = "delete_conversation" =>
                LET c == TableCalls[k].conversation_id
                    before == TableCalls[k].before
                    after == TableCalls[k].after
                IN  /\ get_conversation(after.conversations, c) = None
                    /\ get_messages(ItemsOf(after.messages, c),
                                    HISTORY_FETCH_LIMIT) = <<>>
                    /\ count_messages(ItemsOf(after.messages, c)) = 0
                    /\ \A other \in TableConversations \ {c} :
                          /\ get_conversation(after.conversations, other)
                                = get_conversation(before.conversations, other)
                          /\ ItemsOf(after.messages, other)
                                = ItemsOf(before.messages, other)
                    /\ after.memory = before.memory

--------------------------------------------------------------------------
(***************************************************************************)
(* The property of a turn under store failures (checked under SpecPersist). *)
(***************************************************************************)

\* the store accesses C25 names
UnmaskedAccesses ==
    {"save_user", "load_history", "load_facts", "save_assistant",
     "update_conversation", "update_summary"}

\* C25: a failure of the store at any of the turn's accesses to it (saving
\* the user message, reading history or facts in load_context, saving the
\* assistant message, updating the conversation record or the summary) is
\* not masked: an exception leaves send_message or the response says
\* success: false, and the turn is never reported as successful.
C25_PersistenceFailureNotMasked ==
    \A s \in Slots :
        LET req == result.reqs[s]
        IN  (req.at = "done" /\ req.hit \cap UnmaskedAccesses # {})
               => /\ req.propagated \/ req.success = "False"
                  /\ req.success # "True"

--------------------------------------------------------------------------
(***************************************************************************)
(* A turn over several rounds: the model requests tools round after round, *)
(* answers, or fails, and send_message builds the response.                *)
(***************************************************************************)

\* node agent, then route_agent, with a model that may request up to
\* MaxRoundCalls tools over the turn
RoundsAgent ==
    /\ pc = "agent"
    /\ \E reply \in {LlmFailure} \cup
                    ModelReplies(MaxRoundCalls - Len(issued), next_call_id) :
          /\ messages' = agent(messages, human_input, selected_language, reply)
          /\ last_llm' = IF reply = LlmFailure THEN "failed" ELSE "ok"
          /\ issued' = issued \o (IF reply = LlmFailure THEN <<>> ELSE reply.tool_calls)
          /\ next_call_id' = next_call_id +
                (IF reply = LlmFailure THEN 0 ELSE Len(reply.tool_calls))
    /\ llm_calls' = llm_calls + 1
    /\ visited' = Append(visited, "agent")
    /\ pc' = route_agent(messages')
    /\ UNCHANGED <<human_input, selected_language, language_accepted,
                   language_rejection, tool_outputs, mem_calls,
                   conv, local_conv, stored, ltm, response, clock, mem_outcome,
                   summary_call, locals>>
    /\ UNCHANGED fnVars

\* the conversation holds two messages at the end of the turn, so that
\* maybe_update_summary awaits nothing and Finish returns the response
RoundsNext ==
    \/ RoundsAgent
    \/ ToolExecutor
    \/ MemoryUpdate
    \/ ExtractAndUpdate
    \/ Finish

SpecRounds == LoopInit /\ [][RoundsNext]_vars

--------------------------------------------------------------------------
(***************************************************************************)
(* The properties of concurrent turns (checked under SpecRace).            *)
(***************************************************************************)

RaceDone == result.t = "race" /\ \A t \in RaceTurns : result.pc[t] = "done"

\* the turns of a conversation and of a user
TurnsOn(c) == {t \in RaceTurns : ConvOf(result, t) = c}
TurnsBy(u) == {t \in RaceTurns : UserOf(result, t) = u}

\* the roles and contents of stored messages, without their keys
Exchanges(items) ==
    [i \in DOMAIN items |-> [role |-> items[i].role, content |-> items[i].content]]

\* the summary of a conversation covers every message older than the last W
SummaryCurrent(c) ==
    result.convs[c].summary =
        IF Len(result.msgs[c]) > W
        THEN [t |-> "summary",
              of |-> Transcript(OlderThanLastW(result.msgs[c]))]
        ELSE EmptyText

\* the facts of a user hold the fact of every turn of the user
FactsComplete(u) ==
    TurnsBy(u) = {} \/
        (/\ result.facts[u] # None
         /\ Known(result.facts[u]) = {FactOf(t) : t \in TurnsBy(u)})

\* C26: turns in flight at the same time on different conversations, of
\* one user or of two, leave the messages, the summaries and the users'
\* facts that the two turns leave when run one after the other: each
\* conversation has its turn's two messages appended and counted and a
\* summary of all its messages older than the last W, and each user's facts
\* hold the facts of the user's turns.
C26_TurnsOnDifferentConversationsIndependent ==
    (RaceDone /\ ~result.same_conv) =>
        /\ \A c \in {"conv_a", "conv_b"} :
              /\ Exchanges(result.msgs[c]) =
                    Exchanges(PastMessages(result.past_turns))
                       \o <<[role |-> "user", content |-> AcceptedInput],
                            [role |-> "assistant", content |-> [t |-> "model_text"]]>>
              /\ result.convs[c].messageCount = 2 * result.past_turns + 2
              /\ SummaryCurrent(c)
        /\ \A u \in TableUsers : FactsComplete(u)

\* the other turn
Other(t) == CHOOSE o \in RaceTurns : o # t

\* both turns held the facts they had read while the other read or wrote:
\* neither had written its list when the other looked the facts up
FactsRaced ==
    \A t \in RaceTurns :
        result.loc[t].read_facts < result.loc[Other(t)].wrote_facts

\* the turn whose summary was written last had read the messages before
\* the other turn saved its answer
SummaryRaced ==
    \E t \in RaceTurns :
        /\ result.loc[t].wrote_summary > result.loc[Other(t)].wrote_summary
        /\ result.loc[t].read_log < result.loc[Other(t)].read_log

\* C27: two turns in flight at the same time on the same conversation are
\* not serialized: their steps interleave, each turn writes what it
\* computed from its own reads, and nothing orders the reads of one after
\* the writes of the other.  Once both turns are over, a turn's fact is
\* missing from the facts exactly when both turns looked the facts up
\* before either wrote them, and the summary is stale (it does not cover
\* every message older than the last W) exactly when the turn that wrote
\* it last had read the messages before the other turn saved its answer.
C27_SameConversationNotSerialized ==
    (RaceDone /\ result.same_conv) =>
        /\ FactsRaced <=> ~FactsComplete("u1")
        /\ SummaryRaced <=> ~SummaryCurrent("conv_a")

\* ... and there is such an interleaving: both turns over, the summary
\* stale and a fact lost
C27_Witness ==
    /\ RaceDone
    /\ result.same_conv
    /\ FactsRaced /\ SummaryRaced
    /\ ~SummaryCurrent("conv_a")
    /\ ~FactsComplete("u1")

--------------------------------------------------------------------------
(***************************************************************************)
(* The order of requests and results over the rounds (checked under        *)
(* SpecLoop).                                                              *)
(***************************************************************************)

\* the assistant messages of the running list that request tools
Requesting == {i \in DOMAIN messages :
                 messages[i].type = "ai" /\ messages[i].tool_calls # <<>>}

\* the tool-result entries that carry this call id
ResultsFor(id) == {j \in DOMAIN messages :
                     messages[j].type = "tool" /\ messages[j].tool_call_id = id}

\* C28: at every invocation of agent after the first, the running message
\* list holds, for every tool-call request of every earlier assistant
\* message, exactly one tool-result entry with the id of the call, after
\* the requesting message and before any later assistant message.
C28_RoundsStrictlySequential ==
    (pc = "agent" /\ llm_calls >= 1) =>
        \A i \in Requesting :
            \A k \in DOMAIN messages[i].tool_calls :
                LET found == ResultsFor(messages[i].tool_calls[k].id)
                IN  /\ Cardinality(found) = 1
                    /\ \A j \in found :
                          /\ j > i
                          /\ \A a \in (i + 1)..j : messages[a].type # "ai"

\* the third invocation of agent is due, after two rounds of tool calls
C28_Witness ==
    /\ pc = "agent"
    /\ llm_calls = 2
    /\ Cardinality(Requesting) = 2
    /\ ToolRounds = 2

--------------------------------------------------------------------------
(***************************************************************************)
(* The identity get_catch_details acts for (checked under SpecCatch).      *)
(***************************************************************************)

\* C30: when the model requests get_catch_details, the user_id the tool
\* receives is the identity of the turn's authenticated user, whatever the
\* arguments of the model, so the details a turn obtains are those of
\* catches of its own user.
C30_CatchDetailsOwnUserOnly ==
    (result.t = "catch" /\ fpc = "done") =>
        /\ result.received.user_id = result.user
        /\ result.out.t = "catch_details" => OwnerOf(result.out.of) = result.user

--------------------------------------------------------------------------
(***************************************************************************)
(* The order of the keyword router's topics (checked under SpecMock).      *)
(***************************************************************************)

\* two characters are the same letter, whatever their case: each on its
\* own has the same lower-case form
SameLetter(a, b) == Lower(<<a>>) = Lower(<<b>>)

\* the word occurs in the input as a substring, case-insensitively
OccursIn(word, input) ==
    \E off \in 0..(Len(input) - Len(word)) :
        \A k \in DOMAIN word : SameLetter(input[off + k], word[k])

\* the topics (1 weather, 2 pricing, 3 regulation, 4 preservation) that
\* have a keyword occurring in the input
TopicsOccurring(input) ==
    {MOCK_KEYWORDS[g].idx : g \in {g \in DOMAIN MOCK_KEYWORDS :
        \E k \in DOMAIN MOCK_KEYWORDS[g].words :
            OccursIn(MOCK_KEYWORDS[g].words[k], input)}}

\* C31: the keyword router returns the response of the first topic, in the
\* order weather, pricing, regulation, preservation, that has a keyword
\* occurring case-insensitively as a substring of the input, and the
\* generic response if and only if no keyword of any topic occurs.
C31_FirstMatchingTopic ==
    (result.t = "_get_mock_response" /\ fpc = "done") =>
        LET topics == TopicsOccurring(text)
        IN  /\ result.text.idx = 0 <=> topics = {}
            /\ topics # {} =>
                  /\ result.text.idx \in topics
                  /\ \A g \in topics : result.text.idx <= g

\* an input with keywords of two topics, one of them in upper case
C31_Witness ==
    /\ result.t = "_get_mock_response"
    /\ fpc = "done"
    /\ TopicsOccurring(text) = {1, 2}
    /\ text # Lower(text)
    /\ result.text.idx = 1

--------------------------------------------------------------------------
(***************************************************************************)
(* The keyword router's property (checked under SpecMock).                 *)
(***************************************************************************)

\* C8: for every supported selected language, the canned text returned by
\* _get_mock_response is taken from the canned set of that language, not
\* from another language's set.
C8_FallbackInSelectedLanguage ==
    (fpc = "done" /\ result.t = "_get_mock_response" /\ lang \in SupportedLangs)
        => result.text.set = lang

--------------------------------------------------------------------------
(***************************************************************************)
(* The turn's properties (checked under Spec).                             *)
(***************************************************************************)

Rejected == language_accepted = "False"

\* the text is the content of an assistant message saved at the present second
SavedAsAssistant(content) ==
    \E i \in DOMAIN stored :
        /\ stored[i].role = "assistant"
        /\ stored[i].content = content
        /\ stored[i].timestamp.sec = clock

TurnDone == pc = "done"

\* the canned text the fallback of agent puts in its message
FallbackText == get_mock_response(human_input.cps, selected_language)

\* C1: in a turn whose input the guard rejects, the model is never invoked:
\* the machine goes from language_guard straight to the terminal state, and
\* none of load_context, agent, tool_executor and memory_update runs.
C1_RejectedNeverInvokesModel ==
    Rejected =>
        /\ llm_calls = 0
        /\ mem_calls = 0
        /\ visited = <<"language_guard">>
        /\ pc \in {"END", "done"}
        /\ messages = <<>>
        /\ tool_outputs = <<>>

C1_Witness == Rejected /\ TurnDone

\* C6: when the guard rejects, the turn ends with the rejection text as its
\* response: the text holds the canned refusal of the selected language, it
\* is stored as the assistant message of the turn, and the result is
\* flagged language_rejected.
C6_RejectionIsTheResponse ==
    (Rejected /\ TurnDone) =>
        /\ response.success = TRUE
        /\ response.language_rejected = TRUE
        /\ response.content = language_rejection
        /\ response.content.t = "rejection"
        /\ selected_language \in SupportedLangs =>
              response.content.canned = REJECTION_MESSAGES[selected_language]
        /\ SavedAsAssistant(response.content)

C6_Witness ==
    /\ Rejected /\ TurnDone
    /\ selected_language = "hi"
    /\ human_input.cps = <<2965, 2965, 2965>>

\* the entries send_message records for a list of tool-call requests
MetaOf(calls) ==
    [k \in DOMAIN calls |-> [name |-> calls[k].name, args |-> calls[k].args]]

\* what C7 says of a failed model call, but for the tool-call entries
FallbackCompletesTurn ==
    /\ Last(messages) = AIMessage(FallbackText, <<>>)
    /\ Last(visited) \in {"agent", "memory_update"}
    /\ pc \in {"memory_update", "extract_and_update_long_term_memory", "END",
              "maybe_update_summary", "done"}
    /\ TurnDone =>
          /\ response.success = TRUE
          /\ response.content = FallbackText
          /\ SavedAsAssistant(FallbackText)

\* C7 as stated: if the model call of agent fails, the turn does not fail:
\* agent appends a canned assistant message with no tool calls, routing goes
\* to memory_update, the turn completes with the canned text as its
\* response, and no tool-call entries are recorded for the turn.
C7_FallbackCompletesTurn_Original ==
    last_llm = "failed" =>
        /\ FallbackCompletesTurn
        /\ tool_outputs = <<>>
        /\ TurnDone => response.toolCalls = <<>>

\* C7, amended: if the model call of agent fails, the turn does not fail:
\* agent appends a canned assistant message with no tool calls, routing goes
\* to memory_update, the turn completes with the canned text as its
\* response, and the tool-call entries recorded for the turn are exactly the
\* requests of the turn's earlier, successful model calls: none when the
\* failing call is the first model call of the turn.
C7_FallbackCompletesTurn ==
    last_llm = "failed" =>
        /\ FallbackCompletesTurn
        /\ Len(tool_outputs) = Len(issued)
        /\ TurnDone => response.toolCalls = MetaOf(issued)
        /\ llm_calls = 1 =>
              /\ tool_outputs = <<>>
              /\ TurnDone => response.toolCalls = <<>>

C7_Witness ==
    /\ last_llm = "failed" /\ TurnDone
    /\ llm_calls = 2
    /\ response.toolCalls # <<>>

\* C9: after every agent step the next state is tool_executor if and only
\* if the last message of the running list is an assistant message that
\* carries at least one tool-call request; otherwise it is memory_update.
C9_RouteAfterAgent ==
    [][pc = "agent" =>
          LET last == Last(messages')
              has_calls == last.type = "ai" /\ last.tool_calls # <<>>
          IN  /\ has_calls => pc' = "tool_executor"
              /\ ~has_calls => pc' = "memory_update"]_vars

C9_Witness ==
    /\ pc = "tool_executor"
    /\ Last(visited) = "agent"
    /\ Last(messages).type = "ai"
    /\ Len(Last(messages).tool_calls) = 1

\* a call whose tool is registered and does not fail
Succeeds(call) == call.name \in TOOL_MAP /\ ~ToolRaises(call.name, call.args)

\* tool_executor has run on a list that ends with tool-call requests
RoundRun ==
    /\ fpc = "done"
    /\ result.t = "tool_executor"
    /\ Last(result.before).type = "ai"
    /\ Last(result.before).tool_calls # <<>>

\* C10: for every round, with any mix of succeeding, failing and unknown
\* tool calls, tool_executor does not raise and appends exactly one
\* tool-result message per requested call, in request order and keyed to
\* the call's id; the result of a failing or unknown call is an error text
\* and the result of a succeeding call is its normal output.
C10_ToolCallIsolation ==
    RoundRun =>
        LET calls == Last(result.before).tool_calls
            n == Len(result.before)
        IN  /\ result.raised = FALSE
            /\ Len(messages) = n + Len(calls)
            /\ SubSeq(messages, 1, n) = result.before
            /\ \A k \in DOMAIN calls :
                  /\ messages[n + k].type = "tool"
                  /\ messages[n + k].tool_call_id = calls[k].id
                  /\ IF Succeeds(calls[k])
                     THEN messages[n + k].content =
                             ToolReturn(calls[k].name, calls[k].args)
                     ELSE messages[n + k].content.t \in {"tool_error", "unknown_tool"}

C10_Witness ==
    /\ RoundRun
    /\ Len(messages) = Len(result.before) + 3
    /\ {messages[Len(result.before) + k].content.t : k \in 1..3}
          = {"tool_result", "tool_error", "unknown_tool"}

\* the answer send_message draws from the message list the graph returns
AnswerOf(msgs) ==
    IF Truthy(LastAiText(msgs)) THEN LastAiText(msgs) ELSE CouldNotGenerate

\* C12: a failure inside memory_update (fact lookup, extraction model call,
\* fact write) never reaches the caller and never changes the response of
\* the turn: whatever memory_update did, the turn ends with success and the
\* text returned and saved is the answer drawn from the message list.
C12_MemoryFailureSuppressed ==
    mem_outcome # "none" =>
        /\ pc \in {"END", "maybe_update_summary", "done"}
        /\ TurnDone =>
              /\ response.success = TRUE
              /\ response.content = AnswerOf(messages)
              /\ SavedAsAssistant(AnswerOf(messages))

C12_Witness ==
    /\ TurnDone
    /\ mem_outcome = "raised"
    /\ response.content = [t |-> "model_text"]

\* C16: if the summarization call fails while load_context assembles the
\* context, the failure is not propagated: build_message_history returns
\* the fixed fallback text as the summary and caches it, the system prompt
\* carries it as a summary, and the turn goes on to agent and completes
\* with the model's answer as its response, as it does with a real summary.
C16_SummaryFailureSubstituted ==
    summary_call = "failed" =>
        /\ messages[1].type = "system"
        /\ messages[1].content.summary = SummaryUnavailable
        /\ pc \in {"agent", "tool_executor", "memory_update",
                  "extract_and_update_long_term_memory", "END",
                  "maybe_update_summary", "done"}
        /\ ~TurnDone => conv.summary = SummaryUnavailable
        /\ "agent" \in {visited[i] : i \in DOMAIN visited} \/ pc = "agent"
        /\ TurnDone =>
              /\ response.success = TRUE
              /\ response.content = AnswerOf(messages)
              /\ SavedAsAssistant(AnswerOf(messages))

C16_Witness ==
    /\ summary_call = "failed"
    /\ TurnDone
    /\ response.content = [t |-> "model_text"]

--------------------------------------------------------------------------
(***************************************************************************)
(* The tool-call list of the response (checked under SpecRounds).          *)
(***************************************************************************)

\* the turn is over and send_message has returned the model's answer
Answered == TurnDone /\ response.success = TRUE /\ language_accepted = "True"

\* C29 as stated: the tool-call list returned for a turn holds exactly the
\* requests (name and arguments) the model issued over all rounds of the
\* turn, in request order, and is empty when the model issued none or the
\* fallback response was used.
C29_ToolCallsUsed_Original ==
    Answered =>
        /\ response.toolCalls = MetaOf(issued)
        /\ (issued = <<>> \/ last_llm = "failed") => response.toolCalls = <<>>

\* C29, amended: the tool-call list returned for a turn holds exactly the
\* requests (name and arguments) the model issued over all rounds of the
\* turn, in request order; it is empty exactly when the model issued none,
\* and when the fallback response was used it holds the requests of the
\* rounds before the failing model call.
C29_ToolCallsUsed ==
    Answered =>
        /\ response.toolCalls = MetaOf(issued)
        /\ response.toolCalls = <<>> <=> issued = <<>>
        /\ (last_llm = "failed" /\ llm_calls = 1) => response.toolCalls = <<>>

\* a turn answered after two rounds with two different requests
C29_Witness ==
    /\ Answered
    /\ last_llm = "ok"
    /\ ToolRounds = 2
    /\ Len(response.toolCalls) = 2
    /\ response.toolCalls[1] # response.toolCalls[2]

--------------------------------------------------------------------------
(***************************************************************************)
(* The tool-output log of a turn (checked under SpecRounds).               *)
(***************************************************************************)

\* the tool-result entries of the running message list, in order
ToolResults == SelectSeq(messages, LAMBDA msg : msg.type = "tool")

\* C32: the tool-output log of the turn holds exactly one entry per
\* executed tool call, in execution order and accumulated over the rounds;
\* each entry records the tool name, the arguments as supplied and the
\* first 500 characters at most of the result text, while the tool-result
\* message of the running list carries the whole result.
C32_ToolOutputLog ==
    /\ Len(tool_outputs) = Len(ToolResults)
    /\ pc # "tool_executor" => Len(tool_outputs) = Len(issued)
    /\ \A k \in DOMAIN tool_outputs :
          /\ ToolResults[k].tool_call_id = issued[k].id
          /\ tool_outputs[k].tool = issued[k].name
          /\ tool_outputs[k].args = issued[k].args
          /\ tool_outputs[k].result.t = "prefix"
          /\ tool_outputs[k].result.chars <= 500
          /\ tool_outputs[k].result.of = ToolResults[k].content
          /\ ToolResults[k].content.t \in {"tool_result", "tool_error", "unknown_tool"}

\* a turn that ran one tool call in each of two rounds, one of them failing
C32_Witness ==
    /\ pc = "done"
    /\ ToolRounds = 2
    /\ Len(tool_outputs) = 2
    /\ tool_outputs[1].result.of.t # tool_outputs[2].result.of.t

--------------------------------------------------------------------------
(***************************************************************************)
(* The list load_context composes (checked under Spec).                    *)
(***************************************************************************)

\* the stored messages of the earlier turns: those saved before this turn
EarlierTurns == SelectSeq(stored, LAMBDA m : m.timestamp.sec < clock)

\* the last k elements of a sequence
LastK(seq, k) == SubSeq(seq, Len(seq) - k + 1, Len(seq))

\* C33: after load_context the running message list is one system
\* instruction, then the verbatim recent history of the earlier turns, then
\* the new human message as the last element, so that the new human message
\* occurs once in the list sent to the model.
C33_ContextComposition ==
    (pc = "agent" /\ llm_calls = 0) =>
        /\ messages[1].type = "system"
        /\ Last(messages) = HumanMessage(human_input)
        /\ \E k \in 0..Len(EarlierTurns) :
              SubSeq(messages, 2, Len(messages) - 1) =
                  to_langchain_messages(LastK(EarlierTurns, k))

--------------------------------------------------------------------------
(***************************************************************************)
(* The window of a conversation of any length (checked under SpecWindow).  *)
(***************************************************************************)

\* the stored messages, saved one a second, are in timestamp order; the
\* last min(total, W) of them, and the ones before those
MostRecent == SubSeq(stored, Len(stored) - Min(Len(stored), W) + 1, Len(stored))
OlderThanMostRecent == SubSeq(stored, 1, Len(stored) - Min(Len(stored), W))

\* C34: for a conversation of any length, longer than the fetch cap
\* included, the verbatim window built by build_message_history is the
\* min(total, W) most recent stored messages in timestamp order, and the
\* prefix it has summarised is exactly the stored messages older than that
\* window.
C34_WindowIsMostRecent ==
    \A k \in Done(result.calls) :
        LET call == result.calls[k]
        IN  /\ call.recent = to_langchain_messages(MostRecent)
            /\ (call.summarized /\ call.reply.ok /\ Truthy(call.reply.text)) =>
                  call.summary =
                     [t |-> "summary", of |-> Transcript(OlderThanMostRecent)]

--------------------------------------------------------------------------
(***************************************************************************)
(* The message count of the conversation record (checked under Spec).      *)
(***************************************************************************)

\* C35: after every completed turn, accepted, rejected by the guard or
\* ended by a graph error, the messageCount of the conversation record
\* equals the number of messages stored for the conversation.
C35_MessageCountMatchesStore ==
    TurnDone => conv.messageCount = Len(stored)

--------------------------------------------------------------------------
(***************************************************************************)
(* The two messages a turn leaves in the log (checked under Spec).         *)
(***************************************************************************)

\* C36: every completed turn, accepted, rejected by the guard or ended by
\* a graph error, appends exactly two messages to the log of the
\* conversation, the user's message first and then one assistant message,
\* and the content of that assistant message is the response text returned
\* to the caller.
C36_TurnAppendsTwoMessages ==
    TurnDone =>
        LET n == local_conv.messageCount
            log == get_messages(stored, HISTORY_FETCH_LIMIT)
        IN  /\ Len(log) = n + 2
            /\ SubSeq(log, 1, n) = PastMessages(n \div 2)
            /\ log[n + 1].role = "user"
            /\ log[n + 1].content = human_input
            /\ log[n + 2].role = "assistant"
            /\ log[n + 2].content = response.content

--------------------------------------------------------------------------
(***************************************************************************)
(* What a rejected turn leaves alone (checked under Spec).                 *)
(***************************************************************************)

\* the elements of a sequence
Range(seq) == {seq[i] : i \in DOMAIN seq}

\* the turn is over and the guard had rejected its input
RejectedTurnDone == TurnDone /\ language_accepted = "False"

\* C37: a turn the guard rejects changes nothing in the store except for
\* the user's message and the rejection message it saves: the conversation
\* record and the user's facts are after the turn what they were before it,
\* no node that writes to them having run.
C37_RejectedTurnFrame ==
    RejectedTurnDone =>
        /\ conv = local_conv
        /\ ltm = None
        /\ visited = <<"language_guard">>
        /\ Len(stored) <= local_conv.messageCount + 2
        /\ \A i \in DOMAIN stored :
              \/ stored[i] \in Range(PastMessages(local_conv.messageCount \div 2))
              \/ stored[i].role = "user" /\ stored[i].content = human_input
              \/ stored[i].role = "assistant" /\ stored[i].content = response.content

\* a rejected turn on a conversation whose log outgrows the window with
\* the user's message of this turn
C37_Witness ==
    /\ RejectedTurnDone
    /\ local_conv.messageCount = W
    /\ Len(stored) = local_conv.messageCount + 2

--------------------------------------------------------------------------
(***************************************************************************)
(* Requests on conversations of others (checked under SpecAccess).         *)
(***************************************************************************)

\* the requests that are over
AccessDone == {s \in Slots : result.reqs[s].at = "done"}

\* the request that send_message has taken up in this step, in slot s
Taken(s) ==
    /\ result'.sent = result.sent + 1
    /\ result'.reqs[s] # result.reqs[s]

\* C38: send_message on a conversation that does not exist or that another
\* user owns ends in an error, not found or forbidden, with the store
\* unchanged: no message is saved, the graph is not invoked, and the
\* conversation record is not modified.  Stated on the step in which
\* send_message takes the request up, whatever the other requests in flight
\* have done to the tables before it: on a missing record the request is
\* over with 404, on a record of another user with 403, there is no
\* response body, graph.ainvoke is not reached, and the messages, the
\* conversation record and the facts are after the step what they were
\* before it; on a record of the caller the request goes on.
C38_ForeignConversationRefused ==
    [][\A s \in Slots :
          Taken(s) =>
             LET req == result'.reqs[s]
             IN  IF conv = None \/ conv.userId # req.user
                 THEN /\ req.status = (IF conv = None THEN 404 ELSE 403)
                      /\ req.at = "done"
                      /\ ~req.invoked
                      /\ req.success = "none"
                      /\ stored' = stored
                      /\ conv' = conv
                      /\ ltm' = ltm
                 ELSE /\ req.status = 200
                      /\ req.invoked
                      /\ req.at = "graph"
                      /\ Len(stored') = Len(stored) + 1]_vars

\* a request on a conversation of another user that holds messages,
\* refused while a request of the owner waits for the extraction model
C38_Witness ==
    \E s \in AccessDone, o \in Slots :
        /\ result.reqs[s].status = 403
        /\ result.reqs[s].owner # result.reqs[s].user
        /\ ~result.reqs[s].invoked
        /\ Len(stored) > 0
        /\ result.reqs[o].at = "memory_write"

--------------------------------------------------------------------------
(***************************************************************************)
(* A delete during a turn (checked under SpecDeleteRace).                  *)
(***************************************************************************)

\* the turn has finished and the delete took place while it was in flight
DeletedInFlight ==
    /\ result.t = "delete_race"
    /\ result.at = "done"
    /\ result.deleted_at \notin {"never", "start", "done"}

\* C39: if the conversation is deleted while a turn on it is in flight,
\* then once both have finished the store holds no conversation record and
\* no messages of the conversation.
C39_DeleteDuringTurnLeavesNothing ==
    DeletedInFlight => (conv = None /\ stored = <<>>)

=============================================================================
